---- MODULE Spec2Model ----
(***************************************************************************)
(* Connected-component labelling of a binary raster: the raster model      *)
(* (core/image.py), the four labelling algorithms (algorithms/two_pass.py, *)
(* union_find.py, kruskal.py, prim.py) and the drivers that call them.     *)
(*                                                                         *)
(* A call of label() is modelled as a frame (a record of the call's        *)
(* locals, with a program counter) that advances one loop iteration per    *)
(* step.  Three specifications use the same step operators:                *)
(*   Spec        one label() call, stepped iteration by iteration;         *)
(*   DriverSpec  the benchmark driver, each label() call run to its end;   *)
(*   ConcSpec    two label() calls interleaved over one shared raster.     *)
(* AnyOrderSpec is Two-Pass with the cells of its second pass visited in   *)
(* any order.                                                              *)
(* GreySpec and CheckerSpec are Spec on other input rasters.  The classes  *)
(* the algorithms are built on are exercised on their own, one method call *)
(* per step on one object:                                                 *)
(*   GridSpec    Image and LabelImage (at, set_at, fill, count_labels);    *)
(*   TableSpec   EquivalenceTable (make_set, find, unite);                 *)
(*   DisjointSetSpec  DisjointSet and DisjointSetKruskal (find, unite);    *)
(*   SetsSpec    the three union-find structures together.                 *)
(***************************************************************************)
EXTENDS Integers, Sequences, FiniteSets, TLC

VARIABLES image, original, inv, results, object, call

vars == <<image, original, inv, results, object, call>>

(***************************************************************************)
(* Bounds of the model.                                                    *)
(***************************************************************************)
MaxWidth == 4
MaxHeight == 3
MaxPixels == 9
NumRuns == 2
ConcPixels == 4
GreyPixels == 4
CheckerSize == 4
GridSide == 2
GridCells == 4
MaxLabels == 4
MaxElements == 4
AnyOrderPixels == 6
ChainPixels == 12

(***************************************************************************)
(* Program constants.                                                      *)
(***************************************************************************)
Foreground == 255
MaxIntensity == 255

Algorithms == <<"two_pass", "union_find", "kruskal", "prim">>

Connectivities == <<4, 8>>

(***************************************************************************)
(* Raster model: Image and LabelImage.  A grid is a record with its        *)
(* dimensions and a cell map indexed by <<row, column>>.                   *)
(***************************************************************************)
Coords(width, height) == (0 .. height - 1) \X (0 .. width - 1)

NewImage(width, height) ==
    [width |-> width, height |-> height,
     data |-> [c \in Coords(width, height) |-> 0]]

IsValid(grid, x, y) ==
    0 <= x /\ x < grid.height /\ 0 <= y /\ y < grid.width

AllValid(grid, cs) ==
    \A i \in 1 .. Len(cs) : IsValid(grid, cs[i][1], cs[i][2])

At(grid, x, y) == grid.data[<<x, y>>]

LabelSetAt(grid, x, y, value) ==
    [grid EXCEPT !.data[<<x, y>>] = value]

Fill(grid, value) ==
    [grid EXCEPT !.data = [c \in DOMAIN grid.data |-> value]]

\* Image.binarize: cells >= threshold become 255, the others 0.
Binarize(grid, threshold) ==
    [grid EXCEPT !.data = [c \in DOMAIN grid.data |->
                              IF grid.data[c] >= threshold THEN Foreground ELSE 0]]

\* Mutant: every value other than 0 is counted, the negative ones too.
CountLabelsNonZero(grid) ==
    Cardinality({grid.data[c] : c \in {d \in DOMAIN grid.data : grid.data[d] # 0}})

CountLabels(grid) ==
    Cardinality({grid.data[c] : c \in {d \in DOMAIN grid.data : grid.data[d] > 0}})

GetIndex(x, y, width) == x * width + y

(***************************************************************************)
(* Neighbourhoods.                                                         *)
(***************************************************************************)
Opt(cond, c) == IF cond THEN <<c>> ELSE <<>>

\* Mutant: the north-east neighbour is forgotten under 8-connectivity.
GetPreviousNeighborsNoNorthEast(x, y, width, height, connectivity) ==
    IF connectivity = 4
    THEN Opt(x > 0, <<x - 1, y>>) \o Opt(y > 0, <<x, y - 1>>)
    ELSE IF connectivity = 8
    THEN Opt(x > 0 /\ y > 0, <<x - 1, y - 1>>)
         \o Opt(x > 0, <<x - 1, y>>)
         \o Opt(y > 0, <<x, y - 1>>)
    ELSE <<>>

\* Mutant: every connectivity other than 4 is taken as 8 ("else" where the
\* code has "elif connectivity == 8").
GetPreviousNeighborsElse8(x, y, width, height, connectivity) ==
    IF connectivity = 4
    THEN Opt(x > 0, <<x - 1, y>>) \o Opt(y > 0, <<x, y - 1>>)
    ELSE Opt(x > 0 /\ y > 0, <<x - 1, y - 1>>)
         \o Opt(x > 0, <<x - 1, y>>)
         \o Opt(x > 0 /\ y < width - 1, <<x - 1, y + 1>>)
         \o Opt(y > 0, <<x, y - 1>>)

GetPreviousNeighbors(x, y, width, height, connectivity) ==
    IF connectivity = 4
    THEN Opt(x > 0, <<x - 1, y>>) \o Opt(y > 0, <<x, y - 1>>)
    ELSE IF connectivity = 8
    THEN Opt(x > 0 /\ y > 0, <<x - 1, y - 1>>)
         \o Opt(x > 0, <<x - 1, y>>)
         \o Opt(x > 0 /\ y < width - 1, <<x - 1, y + 1>>)
         \o Opt(y > 0, <<x, y - 1>>)
    ELSE <<>>

Offsets8 ==
    << <<-1, -1>>, <<-1, 0>>, <<-1, 1>>, <<0, -1>>, <<0, 1>>,
       <<1, -1>>, <<1, 0>>, <<1, 1>> >>

\* Mutant: the south-west neighbour is left out under 8-connectivity.
GetNeighborsNoSouthWest(x, y, width, height, connectivity) ==
    IF connectivity = 4
    THEN Opt(x > 0, <<x - 1, y>>) \o Opt(x < height - 1, <<x + 1, y>>)
         \o Opt(y < width - 1, <<x, y + 1>>) \o Opt(y > 0, <<x, y - 1>>)
    ELSE IF connectivity = 8
    THEN LET cand == [i \in 1 .. Len(Offsets8) |->
                         <<x + Offsets8[i][1], y + Offsets8[i][2]>>]
         IN SelectSeq(cand, LAMBDA c : 0 <= c[1] /\ c[1] < height
                                       /\ 0 <= c[2] /\ c[2] < width
                                       /\ c # <<x + 1, y - 1>>)
    ELSE <<>>

\* Mutant: the south and east bounds are tested against height and width
\* instead of height - 1 and width - 1.
GetNeighborsOffByOne(x, y, width, height, connectivity) ==
    IF connectivity = 4
    THEN Opt(x > 0, <<x - 1, y>>) \o Opt(x < height, <<x + 1, y>>)
         \o Opt(y < width, <<x, y + 1>>) \o Opt(y > 0, <<x, y - 1>>)
    ELSE IF connectivity = 8
    THEN LET cand == [i \in 1 .. Len(Offsets8) |->
                         <<x + Offsets8[i][1], y + Offsets8[i][2]>>]
         IN SelectSeq(cand, LAMBDA c : 0 <= c[1] /\ c[1] <= height
                                       /\ 0 <= c[2] /\ c[2] <= width)
    ELSE <<>>

GetNeighbors(x, y, width, height, connectivity) ==
    IF connectivity = 4
    THEN Opt(x > 0, <<x - 1, y>>) \o Opt(x < height - 1, <<x + 1, y>>)
         \o Opt(y < width - 1, <<x, y + 1>>) \o Opt(y > 0, <<x, y - 1>>)
    ELSE IF connectivity = 8
    THEN LET cand == [i \in 1 .. Len(Offsets8) |->
                         <<x + Offsets8[i][1], y + Offsets8[i][2]>>]
         IN SelectSeq(cand, LAMBDA c : 0 <= c[1] /\ c[1] < height
                                       /\ 0 <= c[2] /\ c[2] < width)
    ELSE <<>>

(***************************************************************************)
(* Method calls on one object.  object is the receiver, with its class and *)
(* its fields; call is the last method call made on it: the method, its    *)
(* arguments, the receiver as it was before the call, how the call ended   *)
(* and what it returned.                                                   *)
(***************************************************************************)
NoObject == [class |-> "none"]

NoMethodCall ==
    [method |-> "none", args |-> <<>>, self |-> NoObject,
     status |-> "none", value |-> 0]

\* How a method call ends: the receiver after it, and the value it
\* returns or the error it raises.
Returns(self, value) == [self |-> self, status |-> "returned", value |-> value]

Raises(self, error) == [self |-> self, status |-> error, value |-> 0]

\* The step of the receiver: object becomes what the call left, call
\* records the call.
Invoke(method, args, outcome) ==
    /\ object' = outcome.self
    /\ call' = [method |-> method, args |-> args, self |-> object,
                status |-> outcome.status, value |-> outcome.value]
    /\ UNCHANGED <<image, original, inv, results>>

(***************************************************************************)
(* Frames.  A frame holds the locals of one label() call.  input_image is  *)
(* the caller's raster, which the call holds by reference.  visited is     *)
(* only used by the scan in any order (AnyOrderSpec): the cells it has     *)
(* been to.                                                                *)
(***************************************************************************)
NoCall ==
    [alg |-> "none", connectivity |-> 0, pc |-> "idle",
     input_image |-> NewImage(0, 0), width |-> 0, height |-> 0,
     labels |-> NewImage(0, 0), x |-> 0, y |-> 0,
     parent |-> <<>>, rank |-> <<>>, edges |-> <<>>, edge_i |-> 0,
     root_to_label |-> <<>>, next_label |-> 0, current_label |-> 0,
     queue |-> <<>>, visited |-> {}]

Raise(f, error) == [f EXCEPT !.pc = error]

\* The row-major scan "for x in range(height): for y in range(width)":
\* move to the next cell, or to the phase after the scan when it is over.
Advance(f, after) ==
    IF f.y + 1 < f.width THEN [f EXCEPT !.y = f.y + 1]
    ELSE IF f.x + 1 < f.height THEN [f EXCEPT !.x = f.x + 1, !.y = 0]
    ELSE [f EXCEPT !.x = 0, !.y = 0, !.pc = after]

(***************************************************************************)
(* GridSpec: the methods of Image and LabelImage, called with coordinates  *)
(* inside and outside the grid and with values inside and outside the      *)
(* range of intensities.                                                   *)
(***************************************************************************)
ImageObject(width, height) == [class |-> "Image"] @@ NewImage(width, height)

LabelImageObject(width, height) ==
    [class |-> "LabelImage"] @@ NewImage(width, height)

ImageAt(self, x, y) ==
    IF ~IsValid(self, x, y) THEN Raises(self, "IndexError")
    ELSE Returns(self, At(self, x, y))

\* Mutant: values below 0 are stored as they are.
ClampNoLowerBound(value) ==
    IF value > MaxIntensity THEN MaxIntensity ELSE value

\* Image.set_at: "if value < 0: value = 0 elif value > 255: value = 255".
Clamp(value) ==
    IF value < 0 THEN 0
    ELSE IF value > MaxIntensity THEN MaxIntensity
    ELSE value

ImageSetAt(self, x, y, value) ==
    IF ~IsValid(self, x, y) THEN Raises(self, "IndexError")
    ELSE Returns([self EXCEPT !.data[<<x, y>>] = Clamp(value)], "None")

LabelImageAt(self, x, y) ==
    IF ~IsValid(self, x, y) THEN Raises(self, "IndexError")
    ELSE Returns(self, At(self, x, y))

\* Mutant: the cell is written before the coordinates are checked, and a
\* negative index counts from the end of the list.
LabelImageSetAtCheckAfterWrite(self, x, y, value) ==
    LET wx == IF x < 0 THEN x + self.height ELSE x
        wy == IF y < 0 THEN y + self.width ELSE y
    IN IF IsValid(self, x, y) THEN Returns(LabelSetAt(self, x, y, value), "None")
       ELSE IF IsValid(self, wx, wy)
       THEN Raises(LabelSetAt(self, wx, wy, value), "IndexError")
       ELSE Raises(self, "IndexError")

LabelImageSetAt(self, x, y, value) ==
    IF ~IsValid(self, x, y) THEN Raises(self, "IndexError")
    ELSE Returns(LabelSetAt(self, x, y, value), "None")

LabelImageFill(self, value) == Returns(Fill(self, value), "None")

LabelImageCountLabels(self) == Returns(self, CountLabels(self))

GridClasses == {"Image", "LabelImage"}

\* Arguments of the calls: coordinates on both sides of the grid's edges,
\* values on both sides of the range of intensities.
GridCoordinates == -1 .. GridSide

GridValues == {-1, 0, MaxIntensity, MaxIntensity + 1}

GridInit ==
    /\ image = NewImage(0, 0)
    /\ original = image
    /\ inv = [p \in 1 .. 1 |-> NoCall]
    /\ results = <<>>
    /\ \E width, height \in 0 .. GridSide :
          /\ width * height <= GridCells
          /\ object \in {ImageObject(width, height),
                          LabelImageObject(width, height)}
    /\ call = NoMethodCall

CallAt ==
    /\ object.class \in GridClasses
    /\ \E x, y \in GridCoordinates :
          Invoke("at", <<x, y>>,
                 IF object.class = "Image" THEN ImageAt(object, x, y)
                 ELSE LabelImageAt(object, x, y))

CallSetAt ==
    /\ object.class \in GridClasses
    /\ \E x, y \in GridCoordinates, value \in GridValues :
          Invoke("set_at", <<x, y, value>>,
                 IF object.class = "Image" THEN ImageSetAt(object, x, y, value)
                 ELSE LabelImageSetAt(object, x, y, value))

CallFill ==
    /\ object.class = "LabelImage"
    /\ \E value \in GridValues :
          Invoke("fill", <<value>>, LabelImageFill(object, value))

CallCountLabels ==
    /\ object.class = "LabelImage"
    /\ Invoke("count_labels", <<>>, LabelImageCountLabels(object))

GridNext ==
    \/ CallAt
    \/ CallSetAt
    \/ CallFill
    \/ CallCountLabels

GridSpec == GridInit /\ [][GridNext]_vars

(***************************************************************************)
(* Two-Pass: the equivalence table.  parent is the list _parent, indexed   *)
(* from 0.  find recurses along the parent pointers; a walk longer than    *)
(* the table cannot reach a root and ends in Python's RecursionError       *)
(* (ok = FALSE).                                                           *)
(***************************************************************************)
\* Mutant: the table starts empty, so label 0 is not reserved.
NewEquivalenceTableEmpty == <<>>

NewEquivalenceTable == [i \in 0 .. 0 |-> 0]

TableLen(parent) == Cardinality(DOMAIN parent)

EqMakeSet(parent) ==
    LET label == TableLen(parent)
    IN [label |-> label,
        parent |-> [i \in 0 .. label |-> IF i < label THEN parent[i] ELSE label]]

RECURSIVE EqFindRec(_, _, _)
EqFindRec(parent, x, fuel) ==
    IF x <= 0 \/ x >= TableLen(parent)
    THEN [root |-> 0, parent |-> parent, ok |-> TRUE]
    ELSE IF parent[x] = x
    THEN [root |-> x, parent |-> parent, ok |-> TRUE]
    ELSE IF fuel = 0
    THEN [root |-> 0, parent |-> parent, ok |-> FALSE]
    ELSE LET r == EqFindRec(parent, parent[x], fuel - 1)
         IN IF ~r.ok THEN r
            ELSE [root |-> r.root, ok |-> TRUE,
                  parent |-> [r.parent EXCEPT ![x] = r.root]]

\* Mutant: find returns the parent of x without walking up to the root.
EqFindParentOnly(parent, x) ==
    IF x <= 0 \/ x >= TableLen(parent)
    THEN [root |-> 0, parent |-> parent, ok |-> TRUE]
    ELSE [root |-> parent[x], parent |-> parent, ok |-> TRUE]

EqFind(parent, x) == EqFindRec(parent, x, TableLen(parent))

\* Mutant: the root of y always goes under the root of x, whatever their
\* order.
EqUniteSecondUnderFirst(parent, x, y) ==
    LET fx == EqFind(parent, x)
        fy == EqFind(fx.parent, y)
    IN IF ~fx.ok \/ ~fy.ok THEN [parent |-> parent, ok |-> FALSE]
       ELSE IF fx.root = fy.root THEN [parent |-> fy.parent, ok |-> TRUE]
       ELSE [parent |-> [fy.parent EXCEPT ![fy.root] = fx.root], ok |-> TRUE]

\* Mutant: the smaller root goes under the larger one.
EqUniteSmallerUnderLarger(parent, x, y) ==
    LET fx == EqFind(parent, x)
        fy == EqFind(fx.parent, y)
    IN IF ~fx.ok \/ ~fy.ok THEN [parent |-> parent, ok |-> FALSE]
       ELSE IF fx.root = fy.root THEN [parent |-> fy.parent, ok |-> TRUE]
       ELSE IF fx.root > fy.root
       THEN [parent |-> [fy.parent EXCEPT ![fy.root] = fx.root], ok |-> TRUE]
       ELSE [parent |-> [fy.parent EXCEPT ![fx.root] = fy.root], ok |-> TRUE]

EqUnite(parent, x, y) ==
    LET fx == EqFind(parent, x)
        fy == EqFind(fx.parent, y)
    IN IF ~fx.ok \/ ~fy.ok THEN [parent |-> parent, ok |-> FALSE]
       ELSE IF fx.root = fy.root THEN [parent |-> fy.parent, ok |-> TRUE]
       ELSE IF fx.root < fy.root
       THEN [parent |-> [fy.parent EXCEPT ![fy.root] = fx.root], ok |-> TRUE]
       ELSE [parent |-> [fy.parent EXCEPT ![fx.root] = fy.root], ok |-> TRUE]

(***************************************************************************)
(* TableSpec: the methods of EquivalenceTable called in any order, with    *)
(* labels the table holds and with arguments it does not hold (0, negative *)
(* or not yet allocated).                                                  *)
(***************************************************************************)
EquivalenceTableObject ==
    [class |-> "EquivalenceTable", parent |-> NewEquivalenceTable]

TableMakeSet(self) ==
    LET m == EqMakeSet(self.parent)
    IN Returns([self EXCEPT !.parent = m.parent], m.label)

TableFind(self, x) ==
    LET r == EqFind(self.parent, x)
    IN IF ~r.ok THEN Raises(self, "RecursionError")
       ELSE Returns([self EXCEPT !.parent = r.parent], r.root)

TableUnite(self, x, y) ==
    LET u == EqUnite(self.parent, x, y)
    IN IF ~u.ok THEN Raises(self, "RecursionError")
       ELSE Returns([self EXCEPT !.parent = u.parent], "None")

TableArgs == -1 .. MaxLabels

TableInit ==
    /\ image = NewImage(0, 0)
    /\ original = image
    /\ inv = [p \in 1 .. 1 |-> NoCall]
    /\ results = <<>>
    /\ object = EquivalenceTableObject
    /\ call = NoMethodCall

CallMakeSet ==
    /\ object.class = "EquivalenceTable"
    /\ TableLen(object.parent) <= MaxLabels
    /\ Invoke("make_set", <<>>, TableMakeSet(object))

CallTableFind ==
    /\ object.class = "EquivalenceTable"
    /\ \E x \in TableArgs : Invoke("find", <<x>>, TableFind(object, x))

CallTableUnite ==
    /\ object.class = "EquivalenceTable"
    /\ \E x, y \in TableArgs :
          Invoke("unite", <<x, y>>, TableUnite(object, x, y))

TableNext ==
    \/ CallMakeSet
    \/ CallTableFind
    \/ CallTableUnite

TableSpec == TableInit /\ [][TableNext]_vars

(***************************************************************************)
(* Two-Pass: label(), _first_pass, _second_pass.                           *)
(***************************************************************************)
TwoPassLabel(input_image, connectivity) ==
    [NoCall EXCEPT
        !.alg = "two_pass", !.connectivity = connectivity,
        !.input_image = input_image,
        !.width = input_image.width, !.height = input_image.height,
        !.labels = Fill(NewImage(input_image.width, input_image.height), 0),
        !.parent = NewEquivalenceTable,
        !.pc = "first_pass"]

\* Mutant: only the value 255 counts as an object pixel among the neighbours.
NeighborLabelsOnly255(input_image, labels, neighbors) ==
    LET obj == SelectSeq(neighbors,
                   LAMBDA c : At(input_image, c[1], c[2]) = Foreground
                              /\ At(labels, c[1], c[2]) > 0)
    IN [i \in 1 .. Len(obj) |-> At(labels, obj[i][1], obj[i][2])]

NeighborLabels(input_image, labels, neighbors) ==
    LET obj == SelectSeq(neighbors,
                   LAMBDA c : At(input_image, c[1], c[2]) # 0
                              /\ At(labels, c[1], c[2]) > 0)
    IN [i \in 1 .. Len(obj) |-> At(labels, obj[i][1], obj[i][2])]

RECURSIVE MinLabelFrom(_, _, _)
MinLabelFrom(neighbor_labels, i, min_label) ==
    IF i > Len(neighbor_labels) THEN min_label
    ELSE MinLabelFrom(neighbor_labels, i + 1,
             IF neighbor_labels[i] < min_label THEN neighbor_labels[i]
             ELSE min_label)

\* Mutant: the label of the first neighbour is taken for the minimum.
MinLabelFirstNeighbor(neighbor_labels) == neighbor_labels[1]

MinLabel(neighbor_labels) == MinLabelFrom(neighbor_labels, 2, neighbor_labels[1])

RECURSIVE RecordEquivalences(_, _, _, _)
RecordEquivalences(parent, neighbor_labels, min_label, i) ==
    IF i > Len(neighbor_labels) THEN [parent |-> parent, ok |-> TRUE]
    ELSE IF neighbor_labels[i] # min_label
    THEN LET u == EqUnite(parent, min_label, neighbor_labels[i])
         IN IF ~u.ok THEN u
            ELSE RecordEquivalences(u.parent, neighbor_labels, min_label, i + 1)
    ELSE RecordEquivalences(parent, neighbor_labels, min_label, i + 1)

TwoPassFirstPassStep(f) ==
    LET x == f.x
        y == f.y
    IN IF ~IsValid(f.input_image, x, y) THEN Raise(f, "IndexError")
       ELSE IF At(f.input_image, x, y) = 0
       THEN Advance([f EXCEPT !.labels = LabelSetAt(f.labels, x, y, 0)],
                    "second_pass")
       ELSE LET neighbors ==
                    GetPreviousNeighbors(x, y, f.width, f.height, f.connectivity)
            IN IF ~AllValid(f.input_image, neighbors)
               THEN Raise(f, "IndexError")
               ELSE LET neighbor_labels ==
                            NeighborLabels(f.input_image, f.labels, neighbors)
                    IN IF Len(neighbor_labels) = 0
                       THEN LET m == EqMakeSet(f.parent)
                            IN Advance([f EXCEPT
                                   !.parent = m.parent,
                                   !.labels = LabelSetAt(f.labels, x, y, m.label)],
                                   "second_pass")
                       ELSE LET min_label == MinLabel(neighbor_labels)
                                u == RecordEquivalences(f.parent, neighbor_labels,
                                                        min_label, 1)
                            IN IF ~u.ok THEN Raise(f, "RecursionError")
                               ELSE Advance([f EXCEPT
                                        !.parent = u.parent,
                                        !.labels = LabelSetAt(f.labels, x, y,
                                                              min_label)],
                                        "second_pass")

TwoPassSecondPassStep(f) ==
    LET x == f.x
        y == f.y
    IN IF ~IsValid(f.labels, x, y) THEN Raise(f, "IndexError")
       ELSE LET label == At(f.labels, x, y)
            IN IF label > 0
               THEN LET r == EqFind(f.parent, label)
                    IN IF ~r.ok THEN Raise(f, "RecursionError")
                       ELSE Advance([f EXCEPT
                                !.parent = r.parent,
                                !.labels = LabelSetAt(f.labels, x, y, r.root)],
                                "done")
               ELSE Advance(f, "done")

(***************************************************************************)
(* Union-Find: DisjointSet (path compression, union by rank).  parent and  *)
(* rank are the lists _parent and _rank, indexed from 0.                   *)
(***************************************************************************)
NewDisjointSet(size) ==
    [parent |-> [i \in 0 .. size - 1 |-> i], rank |-> [i \in 0 .. size - 1 |-> 0]]

RECURSIVE DsFindRec(_, _, _)
DsFindRec(parent, x, fuel) ==
    IF parent[x] = x
    THEN [root |-> x, parent |-> parent, ok |-> TRUE]
    ELSE IF fuel = 0
    THEN [root |-> x, parent |-> parent, ok |-> FALSE]
    ELSE LET r == DsFindRec(parent, parent[x], fuel - 1)
         IN IF ~r.ok THEN r
            ELSE [root |-> r.root, ok |-> TRUE,
                  parent |-> [r.parent EXCEPT ![x] = r.root]]

DsFind(parent, x) == DsFindRec(parent, x, Cardinality(DOMAIN parent))

\* Mutant: on equal ranks the rank of the new root is not incremented.
DsUniteNoRankIncrement(parent, rank, x, y) ==
    LET fx == DsFind(parent, x)
        fy == DsFind(fx.parent, y)
        root_x == fx.root
        root_y == fy.root
    IN IF ~fx.ok \/ ~fy.ok
       THEN [parent |-> parent, rank |-> rank, ok |-> FALSE, merged |-> FALSE]
       ELSE IF root_x = root_y
       THEN [parent |-> fy.parent, rank |-> rank, ok |-> TRUE, merged |-> FALSE]
       ELSE IF rank[root_x] < rank[root_y]
       THEN [parent |-> [fy.parent EXCEPT ![root_x] = root_y], rank |-> rank,
             ok |-> TRUE, merged |-> TRUE]
       ELSE [parent |-> [fy.parent EXCEPT ![root_y] = root_x], rank |-> rank,
             ok |-> TRUE, merged |-> TRUE]

\* Mutant: the same-root test is missing, so a unite inside one set goes
\* through the equal-rank branch.
DsUniteNoSameRootTest(parent, rank, x, y) ==
    LET fx == DsFind(parent, x)
        fy == DsFind(fx.parent, y)
        root_x == fx.root
        root_y == fy.root
    IN IF ~fx.ok \/ ~fy.ok
       THEN [parent |-> parent, rank |-> rank, ok |-> FALSE, merged |-> FALSE]
       ELSE IF rank[root_x] < rank[root_y]
       THEN [parent |-> [fy.parent EXCEPT ![root_x] = root_y], rank |-> rank,
             ok |-> TRUE, merged |-> TRUE]
       ELSE IF rank[root_x] > rank[root_y]
       THEN [parent |-> [fy.parent EXCEPT ![root_y] = root_x], rank |-> rank,
             ok |-> TRUE, merged |-> TRUE]
       ELSE [parent |-> [fy.parent EXCEPT ![root_y] = root_x],
             rank |-> [rank EXCEPT ![root_x] = rank[root_x] + 1],
             ok |-> TRUE, merged |-> TRUE]

\* Mutant: the rank comparison is reversed, the root of higher rank goes
\* under the root of lower rank.
DsUniteHigherUnderLower(parent, rank, x, y) ==
    LET fx == DsFind(parent, x)
        fy == DsFind(fx.parent, y)
        root_x == fx.root
        root_y == fy.root
    IN IF ~fx.ok \/ ~fy.ok
       THEN [parent |-> parent, rank |-> rank, ok |-> FALSE, merged |-> FALSE]
       ELSE IF root_x = root_y
       THEN [parent |-> fy.parent, rank |-> rank, ok |-> TRUE, merged |-> FALSE]
       ELSE IF rank[root_x] > rank[root_y]
       THEN [parent |-> [fy.parent EXCEPT ![root_x] = root_y], rank |-> rank,
             ok |-> TRUE, merged |-> TRUE]
       ELSE IF rank[root_x] < rank[root_y]
       THEN [parent |-> [fy.parent EXCEPT ![root_y] = root_x], rank |-> rank,
             ok |-> TRUE, merged |-> TRUE]
       ELSE [parent |-> [fy.parent EXCEPT ![root_y] = root_x],
             rank |-> [rank EXCEPT ![root_x] = rank[root_x] + 1],
             ok |-> TRUE, merged |-> TRUE]

DsUnite(parent, rank, x, y) ==
    LET fx == DsFind(parent, x)
        fy == DsFind(fx.parent, y)
        root_x == fx.root
        root_y == fy.root
    IN IF ~fx.ok \/ ~fy.ok
       THEN [parent |-> parent, rank |-> rank, ok |-> FALSE, merged |-> FALSE]
       ELSE IF root_x = root_y
       THEN [parent |-> fy.parent, rank |-> rank, ok |-> TRUE, merged |-> FALSE]
       ELSE IF rank[root_x] < rank[root_y]
       THEN [parent |-> [fy.parent EXCEPT ![root_x] = root_y], rank |-> rank,
             ok |-> TRUE, merged |-> TRUE]
       ELSE IF rank[root_x] > rank[root_y]
       THEN [parent |-> [fy.parent EXCEPT ![root_y] = root_x], rank |-> rank,
             ok |-> TRUE, merged |-> TRUE]
       ELSE [parent |-> [fy.parent EXCEPT ![root_y] = root_x],
             rank |-> [rank EXCEPT ![root_x] = rank[root_x] + 1],
             ok |-> TRUE, merged |-> TRUE]

(***************************************************************************)
(* Union-Find: label().  Phase 1 unites every foreground pixel with its    *)
(* foreground neighbours above and to the left; phase 2 maps the roots to  *)
(* compact labels.                                                         *)
(***************************************************************************)
UnionFindLabel(input_image, connectivity) ==
    LET size == input_image.width * input_image.height
        ds == NewDisjointSet(size)
    IN [NoCall EXCEPT
           !.alg = "union_find", !.connectivity = connectivity,
           !.input_image = input_image,
           !.width = input_image.width, !.height = input_image.height,
           !.parent = ds.parent, !.rank = ds.rank,
           !.labels = Fill(NewImage(input_image.width, input_image.height), 0),
           !.pc = "unite_pass"]

\* Mutant: the west neighbour is forgotten under 8-connectivity.
UnionFindNeighborsNoWest8(x, y, width, connectivity) ==
    IF connectivity = 4
    THEN Opt(x > 0, <<x - 1, y>>) \o Opt(y > 0, <<x, y - 1>>)
    ELSE IF connectivity = 8
    THEN Opt(x > 0 /\ y > 0, <<x - 1, y - 1>>)
         \o Opt(x > 0, <<x - 1, y>>)
         \o Opt(x > 0 /\ y < width - 1, <<x - 1, y + 1>>)
    ELSE <<>>

\* Mutant: the north-west neighbour is forgotten under 8-connectivity.
UnionFindNeighborsNoNorthWest8(x, y, width, connectivity) ==
    IF connectivity = 4
    THEN Opt(x > 0, <<x - 1, y>>) \o Opt(y > 0, <<x, y - 1>>)
    ELSE IF connectivity = 8
    THEN Opt(x > 0, <<x - 1, y>>)
         \o Opt(x > 0 /\ y < width - 1, <<x - 1, y + 1>>)
         \o Opt(y > 0, <<x, y - 1>>)
    ELSE <<>>

\* The cells phase 1 reads around (x, y), in the order of the code.
UnionFindNeighbors(x, y, width, connectivity) ==
    IF connectivity = 4
    THEN Opt(x > 0, <<x - 1, y>>) \o Opt(y > 0, <<x, y - 1>>)
    ELSE IF connectivity = 8
    THEN Opt(x > 0 /\ y > 0, <<x - 1, y - 1>>)
         \o Opt(x > 0, <<x - 1, y>>)
         \o Opt(x > 0 /\ y < width - 1, <<x - 1, y + 1>>)
         \o Opt(y > 0, <<x, y - 1>>)
    ELSE <<>>

RECURSIVE UniteWithNeighbors(_, _, _, _, _, _)
UniteWithNeighbors(input_image, ds, current_idx, neighbors, width, i) ==
    IF i > Len(neighbors) THEN ds
    ELSE LET n == neighbors[i]
         IN IF At(input_image, n[1], n[2]) # 0
            THEN LET u == DsUnite(ds.parent, ds.rank, current_idx,
                                  GetIndex(n[1], n[2], width))
                 IN IF ~u.ok THEN u
                    ELSE UniteWithNeighbors(input_image, u, current_idx,
                                            neighbors, width, i + 1)
            ELSE UniteWithNeighbors(input_image, ds, current_idx, neighbors,
                                    width, i + 1)

\* "root_to_label = [0] * size; next_label = 1", run when phase 1 is over.
StartCompaction(f) ==
    IF f.pc = "compact_pass"
    THEN [f EXCEPT !.root_to_label = [i \in 0 .. f.width * f.height - 1 |-> 0],
                   !.next_label = 1]
    ELSE f

UnionFindUniteStep(f) ==
    LET x == f.x
        y == f.y
    IN IF ~IsValid(f.input_image, x, y) THEN Raise(f, "IndexError")
       ELSE IF At(f.input_image, x, y) = 0
       THEN StartCompaction(Advance(f, "compact_pass"))
       ELSE LET neighbors == UnionFindNeighbors(x, y, f.width, f.connectivity)
            IN IF ~AllValid(f.input_image, neighbors)
               THEN Raise(f, "IndexError")
               ELSE LET u == UniteWithNeighbors(f.input_image,
                                 [parent |-> f.parent, rank |-> f.rank,
                                  ok |-> TRUE, merged |-> FALSE],
                                 GetIndex(x, y, f.width), neighbors, f.width, 1)
                    IN IF ~u.ok THEN Raise(f, "RecursionError")
                       ELSE StartCompaction(Advance(
                                [f EXCEPT !.parent = u.parent, !.rank = u.rank],
                                "compact_pass"))

\* Mutant: the compact label is looked up under the pixel's own index, not
\* under the root of its set.
CompactStepByIndex(f) ==
    LET x == f.x
        y == f.y
    IN IF ~IsValid(f.input_image, x, y) \/ ~IsValid(f.labels, x, y)
       THEN Raise(f, "IndexError")
       ELSE IF At(f.input_image, x, y) = 0
       THEN Advance([f EXCEPT !.labels = LabelSetAt(f.labels, x, y, 0)], "done")
       ELSE LET idx == GetIndex(x, y, f.width)
                fresh == f.root_to_label[idx] = 0
                label == IF fresh THEN f.next_label ELSE f.root_to_label[idx]
            IN Advance([f EXCEPT
                        !.root_to_label[idx] = label,
                        !.next_label = IF fresh THEN f.next_label + 1 ELSE @,
                        !.labels = LabelSetAt(f.labels, x, y, label)], "done")

\* Mutant: a pixel's label is the index of its root plus one, not the next
\* unused compact label.
CompactStepRootLabels(f) ==
    LET x == f.x
        y == f.y
    IN IF ~IsValid(f.input_image, x, y) \/ ~IsValid(f.labels, x, y)
       THEN Raise(f, "IndexError")
       ELSE IF At(f.input_image, x, y) = 0
       THEN Advance([f EXCEPT !.labels = LabelSetAt(f.labels, x, y, 0)], "done")
       ELSE LET r == DsFind(f.parent, GetIndex(x, y, f.width))
                label == r.root + 1
            IN IF ~r.ok THEN Raise(f, "RecursionError")
               ELSE Advance([f EXCEPT
                        !.parent = r.parent,
                        !.root_to_label[r.root] = label,
                        !.labels = LabelSetAt(f.labels, x, y, label)], "done")

\* One iteration of the final scan: the pixel's root gets the next unused
\* compact label the first time it is met.
CompactStep(f) ==
    LET x == f.x
        y == f.y
    IN IF ~IsValid(f.input_image, x, y) \/ ~IsValid(f.labels, x, y)
       THEN Raise(f, "IndexError")
       ELSE IF At(f.input_image, x, y) = 0
       THEN Advance([f EXCEPT !.labels = LabelSetAt(f.labels, x, y, 0)], "done")
       ELSE LET r == DsFind(f.parent, GetIndex(x, y, f.width))
                fresh == f.root_to_label[r.root] = 0
                label == IF fresh THEN f.next_label ELSE f.root_to_label[r.root]
            IN IF ~r.ok THEN Raise(f, "RecursionError")
               ELSE Advance([f EXCEPT
                        !.parent = r.parent,
                        !.root_to_label[r.root] = label,
                        !.next_label = IF fresh THEN f.next_label + 1 ELSE @,
                        !.labels = LabelSetAt(f.labels, x, y, label)], "done")

UnionFindCompactStep(f) == CompactStep(f)

(***************************************************************************)
(* Kruskal: edges, DisjointSetKruskal (the same code as DisjointSet) and   *)
(* label(): build the edge list, sort it, unite along every edge, compact. *)
(***************************************************************************)
Edge(u, v, weight) == [u |-> u, v |-> v, weight |-> weight]

\* Mutant: edges are compared by their second vertex.
EdgeLtBySecondVertex(a, b) == a.v < b.v

EdgeLt(a, b) == a.weight < b.weight

\* list.sort() is stable and compares with Edge.__lt__: an element moves
\* only in front of elements it is strictly less than.
RECURSIVE InsertEdge(_, _)
InsertEdge(sorted, e) ==
    IF Len(sorted) = 0 THEN <<e>>
    ELSE IF EdgeLt(e, sorted[Len(sorted)])
    THEN Append(InsertEdge(SubSeq(sorted, 1, Len(sorted) - 1), e),
                sorted[Len(sorted)])
    ELSE Append(sorted, e)

RECURSIVE SortEdgesFrom(_, _, _)
SortEdgesFrom(edges, i, sorted) ==
    IF i > Len(edges) THEN sorted
    ELSE SortEdgesFrom(edges, i + 1, InsertEdge(sorted, edges[i]))

SortEdges(edges) == SortEdgesFrom(edges, 1, <<>>)

KruskalFind(parent, x) == DsFind(parent, x)

KruskalUnite(parent, rank, x, y) == DsUnite(parent, rank, x, y)

(***************************************************************************)
(* DisjointSetSpec: the methods of DisjointSet (Union-Find) and of         *)
(* DisjointSetKruskal called in any order on the elements of one set       *)
(* structure.  SetsSpec: the same together with EquivalenceTable.          *)
(***************************************************************************)
DisjointSetObject(class, size) == [class |-> class] @@ NewDisjointSet(size)

DisjointSetClasses == {"DisjointSet", "DisjointSetKruskal"}

DisjointSetFind(self, x) ==
    LET r == IF self.class = "DisjointSet" THEN DsFind(self.parent, x)
             ELSE KruskalFind(self.parent, x)
    IN IF ~r.ok THEN Raises(self, "RecursionError")
       ELSE Returns([self EXCEPT !.parent = r.parent], r.root)

DisjointSetUnite(self, x, y) ==
    LET u == IF self.class = "DisjointSet"
             THEN DsUnite(self.parent, self.rank, x, y)
             ELSE KruskalUnite(self.parent, self.rank, x, y)
    IN IF ~u.ok THEN Raises(self, "RecursionError")
       ELSE Returns([self EXCEPT !.parent = u.parent, !.rank = u.rank],
                    u.merged)

DisjointSetInit ==
    /\ image = NewImage(0, 0)
    /\ original = image
    /\ inv = [p \in 1 .. 1 |-> NoCall]
    /\ results = <<>>
    /\ \E class \in DisjointSetClasses, size \in 1 .. MaxElements :
          object = DisjointSetObject(class, size)
    /\ call = NoMethodCall

CallFind ==
    /\ object.class \in DisjointSetClasses
    /\ \E x \in DOMAIN object.parent :
          Invoke("find", <<x>>, DisjointSetFind(object, x))

CallUnite ==
    /\ object.class \in DisjointSetClasses
    /\ \E x, y \in DOMAIN object.parent :
          Invoke("unite", <<x, y>>, DisjointSetUnite(object, x, y))

DisjointSetNext ==
    \/ CallFind
    \/ CallUnite

DisjointSetSpec == DisjointSetInit /\ [][DisjointSetNext]_vars

SetsInit == TableInit \/ DisjointSetInit

SetsNext ==
    \/ CallMakeSet
    \/ CallTableFind
    \/ CallTableUnite
    \/ CallFind
    \/ CallUnite

SetsSpec == SetsInit /\ [][SetsNext]_vars

KruskalLabel(input_image, connectivity) ==
    [NoCall EXCEPT
        !.alg = "kruskal", !.connectivity = connectivity,
        !.input_image = input_image,
        !.width = input_image.width, !.height = input_image.height,
        !.labels = Fill(NewImage(input_image.width, input_image.height), 0),
        !.pc = "build_edges"]

\* Mutant: no edge to the west neighbour under 4-connectivity.
KruskalNeighborsNoWest4(x, y, width, connectivity) ==
    IF connectivity = 4
    THEN Opt(x > 0, <<x - 1, y>>)
    ELSE IF connectivity = 8
    THEN Opt(x > 0 /\ y > 0, <<x - 1, y - 1>>)
         \o Opt(x > 0, <<x - 1, y>>)
         \o Opt(x > 0 /\ y < width - 1, <<x - 1, y + 1>>)
         \o Opt(y > 0, <<x, y - 1>>)
    ELSE <<>>

\* Mutant: under 4-connectivity an edge goes to the east neighbour as well.
KruskalNeighborsEast4(x, y, width, connectivity) ==
    IF connectivity = 4
    THEN Opt(x > 0, <<x - 1, y>>) \o Opt(y > 0, <<x, y - 1>>)
         \o Opt(y < width - 1, <<x, y + 1>>)
    ELSE IF connectivity = 8
    THEN Opt(x > 0 /\ y > 0, <<x - 1, y - 1>>)
         \o Opt(x > 0, <<x - 1, y>>)
         \o Opt(x > 0 /\ y < width - 1, <<x - 1, y + 1>>)
         \o Opt(y > 0, <<x, y - 1>>)
    ELSE <<>>

\* The cells _build_edges reads around (x, y), in the order of the code.
KruskalNeighbors(x, y, width, connectivity) ==
    IF connectivity = 4
    THEN Opt(x > 0, <<x - 1, y>>) \o Opt(y > 0, <<x, y - 1>>)
    ELSE IF connectivity = 8
    THEN Opt(x > 0 /\ y > 0, <<x - 1, y - 1>>)
         \o Opt(x > 0, <<x - 1, y>>)
         \o Opt(x > 0 /\ y < width - 1, <<x - 1, y + 1>>)
         \o Opt(y > 0, <<x, y - 1>>)
    ELSE <<>>

KruskalBuildEdgesStep(f) ==
    LET x == f.x
        y == f.y
    IN IF ~IsValid(f.input_image, x, y) THEN Raise(f, "IndexError")
       ELSE IF At(f.input_image, x, y) = 0 THEN Advance(f, "sort")
       ELSE LET neighbors == KruskalNeighbors(x, y, f.width, f.connectivity)
                current_idx == GetIndex(x, y, f.width)
            IN IF ~AllValid(f.input_image, neighbors)
               THEN Raise(f, "IndexError")
               ELSE LET obj == SelectSeq(neighbors,
                                   LAMBDA c : At(f.input_image, c[1], c[2]) # 0)
                        new == [i \in 1 .. Len(obj) |->
                                   Edge(current_idx,
                                        GetIndex(obj[i][1], obj[i][2], f.width), 1)]
                    IN Advance([f EXCEPT !.edges = f.edges \o new], "sort")

\* edges.sort(), then "ds = DisjointSetKruskal(size)" and the entry of the
\* loop over the edges (no iteration when there is no edge).
KruskalSortStep(f) ==
    LET ds == NewDisjointSet(f.width * f.height)
        g == [f EXCEPT !.edges = SortEdges(f.edges),
                       !.parent = ds.parent, !.rank = ds.rank, !.edge_i = 1]
    IN IF Len(g.edges) = 0
       THEN StartCompaction([g EXCEPT !.pc = "compact_pass"])
       ELSE [g EXCEPT !.pc = "unite_edges"]

KruskalUniteStep(f) ==
    LET edge == f.edges[f.edge_i]
    IN IF edge.u \notin DOMAIN f.parent \/ edge.v \notin DOMAIN f.parent
       THEN Raise(f, "IndexError")
       ELSE LET u == KruskalUnite(f.parent, f.rank, edge.u, edge.v)
                g == [f EXCEPT !.parent = u.parent, !.rank = u.rank,
                               !.edge_i = f.edge_i + 1]
            IN IF ~u.ok THEN Raise(f, "RecursionError")
               ELSE IF g.edge_i > Len(g.edges)
               THEN StartCompaction([g EXCEPT !.pc = "compact_pass"])
               ELSE g

KruskalCompactStep(f) == CompactStep(f)

(***************************************************************************)
(* Prim: label() scans for unlabelled foreground pixels and _bfs grows the *)
(* component of each one with a FIFO queue.                                *)
(***************************************************************************)
PrimLabel(input_image, connectivity) ==
    [NoCall EXCEPT
        !.alg = "prim", !.connectivity = connectivity,
        !.input_image = input_image,
        !.width = input_image.width, !.height = input_image.height,
        !.labels = Fill(NewImage(input_image.width, input_image.height), 0),
        !.current_label = 0,
        !.pc = "scan"]

\* Mutant: the scan marks the start pixel as consumed in the input raster.
PrimScanStepConsumeSeed(f) ==
    LET x == f.x
        y == f.y
    IN IF ~IsValid(f.input_image, x, y) \/ ~IsValid(f.labels, x, y)
       THEN Raise(f, "IndexError")
       ELSE IF At(f.input_image, x, y) # 0 /\ At(f.labels, x, y) = 0
       THEN [f EXCEPT !.current_label = f.current_label + 1,
                      !.queue = <<<<x, y>>>>,
                      !.labels = LabelSetAt(f.labels, x, y, f.current_label + 1),
                      !.input_image = LabelSetAt(f.input_image, x, y, 0),
                      !.pc = "bfs"]
       ELSE Advance(f, "done")

\* Mutant: the scan starts a traversal at every foreground pixel, labelled
\* or not.
PrimScanStepNoLabelTest(f) ==
    LET x == f.x
        y == f.y
    IN IF ~IsValid(f.input_image, x, y) \/ ~IsValid(f.labels, x, y)
       THEN Raise(f, "IndexError")
       ELSE IF At(f.input_image, x, y) # 0
       THEN [f EXCEPT !.current_label = f.current_label + 1,
                      !.queue = <<<<x, y>>>>,
                      !.labels = LabelSetAt(f.labels, x, y, f.current_label + 1),
                      !.pc = "bfs"]
       ELSE Advance(f, "done")

\* One iteration of the scan of label(); a hit enters _bfs, which queues
\* and labels the start pixel.
PrimScanStep(f) ==
    LET x == f.x
        y == f.y
    IN IF ~IsValid(f.input_image, x, y) \/ ~IsValid(f.labels, x, y)
       THEN Raise(f, "IndexError")
       ELSE IF At(f.input_image, x, y) # 0 /\ At(f.labels, x, y) = 0
       THEN [f EXCEPT !.current_label = f.current_label + 1,
                      !.queue = <<<<x, y>>>>,
                      !.labels = LabelSetAt(f.labels, x, y, f.current_label + 1),
                      !.pc = "bfs"]
       ELSE Advance(f, "done")

\* Mutant: a visited pixel is also cleared in the input raster.
RECURSIVE PrimVisitMarkInput(_, _, _)
PrimVisitMarkInput(f, neighbors, i) ==
    IF i > Len(neighbors) THEN f
    ELSE LET n == neighbors[i]
         IN IF At(f.input_image, n[1], n[2]) # 0 /\ At(f.labels, n[1], n[2]) = 0
            THEN PrimVisitMarkInput([f EXCEPT
                     !.labels = LabelSetAt(f.labels, n[1], n[2], f.current_label),
                     !.input_image = LabelSetAt(f.input_image, n[1], n[2], 0),
                     !.queue = Append(f.queue, n)], neighbors, i + 1)
            ELSE PrimVisitMarkInput(f, neighbors, i + 1)

\* Mutant: a neighbour is labelled and queued whatever its pixel value.
RECURSIVE PrimVisitNoInputTest(_, _, _)
PrimVisitNoInputTest(f, neighbors, i) ==
    IF i > Len(neighbors) THEN f
    ELSE LET n == neighbors[i]
         IN IF At(f.labels, n[1], n[2]) = 0
            THEN PrimVisitNoInputTest([f EXCEPT
                     !.labels = LabelSetAt(f.labels, n[1], n[2], f.current_label),
                     !.queue = Append(f.queue, n)], neighbors, i + 1)
            ELSE PrimVisitNoInputTest(f, neighbors, i + 1)

\* The loop over the neighbours of the popped pixel.
RECURSIVE PrimVisit(_, _, _)
PrimVisit(f, neighbors, i) ==
    IF i > Len(neighbors) THEN f
    ELSE LET n == neighbors[i]
         IN IF At(f.input_image, n[1], n[2]) # 0 /\ At(f.labels, n[1], n[2]) = 0
            THEN PrimVisit([f EXCEPT
                     !.labels = LabelSetAt(f.labels, n[1], n[2], f.current_label),
                     !.queue = Append(f.queue, n)], neighbors, i + 1)
            ELSE PrimVisit(f, neighbors, i + 1)

\* Mutant: the head of the queue is read but not removed.
PrimBfsStepNoPop(f) ==
    LET head == Head(f.queue)
        neighbors == GetNeighbors(head[1], head[2], f.width, f.height,
                                  f.connectivity)
    IN IF ~AllValid(f.input_image, neighbors) \/ ~AllValid(f.labels, neighbors)
       THEN Raise(f, "IndexError")
       ELSE LET g == PrimVisit(f, neighbors, 1)
            IN IF Len(g.queue) = 0
               THEN Advance([g EXCEPT !.pc = "scan"], "done")
               ELSE g

\* One iteration of "while queue"; when the queue is empty _bfs returns
\* and the scan of label() goes on.
PrimBfsStep(f) ==
    LET head == Head(f.queue)
        neighbors == GetNeighbors(head[1], head[2], f.width, f.height,
                                  f.connectivity)
    IN IF ~AllValid(f.input_image, neighbors) \/ ~AllValid(f.labels, neighbors)
       THEN Raise(f, "IndexError")
       ELSE LET g == PrimVisit([f EXCEPT !.queue = Tail(f.queue)], neighbors, 1)
            IN IF Len(g.queue) = 0
               THEN Advance([g EXCEPT !.pc = "scan"], "done")
               ELSE g

(***************************************************************************)
(* A call and its steps.                                                   *)
(***************************************************************************)
Label(alg, input_image, connectivity) ==
    IF alg = "two_pass" THEN TwoPassLabel(input_image, connectivity)
    ELSE IF alg = "union_find" THEN UnionFindLabel(input_image, connectivity)
    ELSE IF alg = "kruskal" THEN KruskalLabel(input_image, connectivity)
    ELSE PrimLabel(input_image, connectivity)

Returned == {"done", "IndexError", "RecursionError"}

Step(f) ==
    IF f.pc = "first_pass" THEN TwoPassFirstPassStep(f)
    ELSE IF f.pc = "second_pass" THEN TwoPassSecondPassStep(f)
    ELSE IF f.pc = "unite_pass" THEN UnionFindUniteStep(f)
    ELSE IF f.pc = "compact_pass" /\ f.alg = "union_find" THEN UnionFindCompactStep(f)
    ELSE IF f.pc = "build_edges" THEN KruskalBuildEdgesStep(f)
    ELSE IF f.pc = "sort" THEN KruskalSortStep(f)
    ELSE IF f.pc = "unite_edges" THEN KruskalUniteStep(f)
    ELSE IF f.pc = "compact_pass" /\ f.alg = "kruskal" THEN KruskalCompactStep(f)
    ELSE IF f.pc = "scan" THEN PrimScanStep(f)
    ELSE IF f.pc = "bfs" THEN PrimBfsStep(f)
    ELSE f

\* A whole call: the frame when label() returns or raises.
RECURSIVE Run(_)
Run(f) == IF f.pc \in Returned \/ f.pc = "idle" THEN f ELSE Run(Step(f))

RunLabel(alg, input_image, connectivity) ==
    Run(Label(alg, input_image, connectivity))

(***************************************************************************)
(* Input rasters: every binarized raster within the bounds.                *)
(***************************************************************************)
Rasters(max_pixels) ==
    UNION { { [width |-> w, height |-> h, data |-> d] :
                d \in [Coords(w, h) -> {0, Foreground}] } :
            <<w, h>> \in { s \in (1 .. MaxWidth) \X (1 .. MaxHeight) :
                             s[1] * s[2] <= max_pixels } }

AlgorithmNames == {Algorithms[i] : i \in 1 .. Len(Algorithms)}

ConnectivityValues == {Connectivities[i] : i \in 1 .. Len(Connectivities)}

(***************************************************************************)
(* Spec: one label() call on a raster, one loop iteration per step.        *)
(***************************************************************************)
Init ==
    /\ image \in Rasters(MaxPixels)
    /\ original = image
    /\ inv = [p \in 1 .. 1 |-> NoCall]
    /\ results = <<>>
    /\ object = NoObject
    /\ call = NoMethodCall

Call(p) ==
    /\ inv[p].pc = "idle"
    /\ \E alg \in AlgorithmNames, connectivity \in ConnectivityValues :
          inv' = [inv EXCEPT ![p] = Label(alg, image, connectivity)]
    /\ UNCHANGED <<image, original, results, object, call>>

\* The frame p takes one step; what it wrote through input_image is
\* written to the shared raster.
Iterate(p, alg, phase) ==
    /\ inv[p].alg = alg
    /\ inv[p].pc = phase
    /\ LET g == Step([inv[p] EXCEPT !.input_image = image])
       IN /\ inv' = [inv EXCEPT ![p] = g]
          /\ image' = g.input_image
    /\ UNCHANGED <<original, results, object, call>>

Procs == DOMAIN inv

CallLabel == \E p \in Procs : Call(p)

TwoPassFirstPass ==
    \E p \in Procs : Iterate(p, "two_pass", "first_pass")

TwoPassSecondPass ==
    \E p \in Procs : Iterate(p, "two_pass", "second_pass")

UnionFindUnite ==
    \E p \in Procs : Iterate(p, "union_find", "unite_pass")

UnionFindCompact ==
    \E p \in Procs : Iterate(p, "union_find", "compact_pass")

KruskalBuildEdges ==
    \E p \in Procs : Iterate(p, "kruskal", "build_edges")

KruskalSort ==
    \E p \in Procs : Iterate(p, "kruskal", "sort")

KruskalUniteEdges ==
    \E p \in Procs : Iterate(p, "kruskal", "unite_edges")

KruskalCompact ==
    \E p \in Procs : Iterate(p, "kruskal", "compact_pass")

PrimScan ==
    \E p \in Procs : Iterate(p, "prim", "scan")

PrimBfs ==
    \E p \in Procs : Iterate(p, "prim", "bfs")

Next ==
    \/ CallLabel
    \/ TwoPassFirstPass
    \/ TwoPassSecondPass
    \/ UnionFindUnite
    \/ UnionFindCompact
    \/ KruskalBuildEdges
    \/ KruskalSort
    \/ KruskalUniteEdges
    \/ KruskalCompact
    \/ PrimScan
    \/ PrimBfs

Spec == Init /\ [][Next]_vars

(***************************************************************************)
(* ConcSpec: two label() calls with their steps interleaved over one       *)
(* shared raster, each with its own frame.                                 *)
(***************************************************************************)
ConcInit ==
    /\ image \in Rasters(ConcPixels)
    /\ original = image
    /\ inv = [p \in 1 .. 2 |-> NoCall]
    /\ results = <<>>
    /\ object = NoObject
    /\ call = NoMethodCall

ConcSpec == ConcInit /\ [][Next]_vars

(***************************************************************************)
(* GreySpec: one label() call on a raster that was not binarized: the      *)
(* object pixels carry any of several non-zero values.                     *)
(***************************************************************************)
GreyValues == {0, 1, 7, Foreground}

GreyRasters(max_pixels) ==
    UNION { { [width |-> w, height |-> h, data |-> d] :
                d \in [Coords(w, h) -> GreyValues] } :
            <<w, h>> \in { s \in (1 .. MaxWidth) \X (1 .. MaxHeight) :
                             s[1] * s[2] <= max_pixels } }

GreyInit ==
    /\ image \in GreyRasters(GreyPixels)
    /\ original = image
    /\ inv = [p \in 1 .. 1 |-> NoCall]
    /\ results = <<>>
    /\ object = NoObject
    /\ call = NoMethodCall

GreySpec == GreyInit /\ [][Next]_vars

(***************************************************************************)
(* CheckerSpec: one label() call on the checkerboard raster: the cell of   *)
(* row x and column y is an object pixel exactly when x + y is even.       *)
(***************************************************************************)
Checkerboard(width, height) ==
    [width |-> width, height |-> height,
     data |-> [c \in Coords(width, height) |->
                  IF (c[1] + c[2]) % 2 = 0 THEN Foreground ELSE 0]]

CheckerInit ==
    /\ image = Checkerboard(CheckerSize, CheckerSize)
    /\ original = image
    /\ inv = [p \in 1 .. 1 |-> NoCall]
    /\ results = <<>>
    /\ object = NoObject
    /\ call = NoMethodCall

CheckerSpec == CheckerInit /\ [][Next]_vars

(***************************************************************************)
(* AnyOrderSpec: Two-Pass with its second pass visiting the cells in any   *)
(* order.  A call starts where TwoPass.label is when _first_pass has       *)
(* returned; each step applies the body of _second_pass's loop to a cell   *)
(* not visited yet.  The rasters are the small ones and, among the larger  *)
(* ones, those where the first pass leaves a label whose parent is not a   *)
(* root, so that find has a path to compress.                              *)
(***************************************************************************)
RECURSIVE RunFirstPass(_)
RunFirstPass(f) ==
    IF f.pc = "first_pass" THEN RunFirstPass(TwoPassFirstPassStep(f)) ELSE f

HasPath(parent) ==
    \E l \in DOMAIN parent : parent[parent[l]] # parent[l]

AnyOrderInit ==
    /\ image \in Rasters(ChainPixels)
    /\ original = image
    /\ \E connectivity \in ConnectivityValues :
          LET f == RunFirstPass(TwoPassLabel(image, connectivity))
          IN /\ f.pc = "second_pass"
             /\ \/ image.width * image.height <= AnyOrderPixels
                \/ HasPath(f.parent)
             /\ inv = [p \in 1 .. 1 |-> f]
    /\ results = <<>>
    /\ object = NoObject
    /\ call = NoMethodCall

SecondPassVisit ==
    \E p \in Procs :
        /\ inv[p].alg = "two_pass"
        /\ inv[p].pc = "second_pass"
        /\ \E c \in DOMAIN inv[p].labels.data \ inv[p].visited :
              LET f == inv[p]
                  g == TwoPassSecondPassStep([f EXCEPT !.x = c[1], !.y = c[2]])
                  visited == f.visited \cup {c}
              IN inv' = [inv EXCEPT ![p] =
                            IF g.pc \notin {"second_pass", "done"} THEN g
                            ELSE [g EXCEPT
                                     !.x = f.x, !.y = f.y,
                                     !.visited = visited,
                                     !.pc = IF visited = DOMAIN f.labels.data
                                            THEN "done" ELSE "second_pass"]]
        /\ UNCHANGED <<image, original, results, object, call>>

AnyOrderNext == SecondPassVisit

AnyOrderSpec == AnyOrderInit /\ [][AnyOrderNext]_vars

(***************************************************************************)
(* DriverSpec: the benchmark driver.  For each connectivity and each       *)
(* algorithm in turn it calls label() NumRuns times on the same raster     *)
(* and keeps what the calls returned.                                      *)
(***************************************************************************)
DriverInit ==
    /\ image \in Rasters(MaxPixels)
    /\ original = image
    /\ inv = [p \in 1 .. 1 |-> NoCall]
    /\ results = <<>>
    /\ object = NoObject
    /\ call = NoMethodCall

RECURSIVE RunTimes(_, _, _, _, _)
RunTimes(algo_name, connectivity, input_image, num_runs, runs) ==
    IF num_runs = 0 THEN [image |-> input_image, runs |-> runs]
    ELSE LET f == RunLabel(algo_name, input_image, connectivity)
         IN RunTimes(algo_name, connectivity, f.input_image, num_runs - 1,
                     Append(runs, [status |-> f.pc, labels |-> f.labels]))

BenchmarkAlgorithm ==
    /\ Len(results) < Len(Connectivities) * Len(Algorithms)
    /\ LET k == Len(results)
           connectivity == Connectivities[(k \div Len(Algorithms)) + 1]
           algo_name == Algorithms[(k % Len(Algorithms)) + 1]
           b == RunTimes(algo_name, connectivity, image, NumRuns, <<>>)
       IN /\ results' = Append(results,
                 [name |-> algo_name, connectivity |-> connectivity,
                  runs |-> b.runs,
                  num_components |-> CountLabels(b.runs[NumRuns].labels)])
          /\ image' = b.image
    /\ UNCHANGED <<original, inv, object, call>>

DriverNext == BenchmarkAlgorithm

DriverSpec == DriverInit /\ [][DriverNext]_vars

(***************************************************************************)
(* Reference notions the properties are stated with.                       *)
(***************************************************************************)
Abs(n) == IF n < 0 THEN -n ELSE n

ForegroundOf(img) == {c \in DOMAIN img.data : img.data[c] # 0}

Adjacent(a, b, connectivity) ==
    LET dx == Abs(a[1] - b[1])
        dy == Abs(a[2] - b[2])
    IN IF connectivity = 4 THEN dx + dy = 1
       ELSE IF connectivity = 8 THEN a # b /\ dx <= 1 /\ dy <= 1
       ELSE FALSE

\* The foreground pixels joined to the set S by chains of adjacent
\* foreground pixels.
RECURSIVE Reach(_, _, _)
Reach(img, connectivity, S) ==
    LET T == S \cup {q \in ForegroundOf(img) :
                        \E a \in S : Adjacent(a, q, connectivity)}
    IN IF T = S THEN S ELSE Reach(img, connectivity, T)

Component(img, connectivity, a) == Reach(img, connectivity, {a})

ComponentCount(img, connectivity) ==
    Cardinality({Component(img, connectivity, a) : a \in ForegroundOf(img)})

\* Two label grids put the pixels of S into the same classes.
SamePartitionOn(S, g1, g2) ==
    \A a, b \in S : (g1.data[a] = g1.data[b]) <=> (g2.data[a] = g2.data[b])

LabelsOf(grid) == {grid.data[c] : c \in DOMAIN grid.data} \ {0}

PartitionCorrect(img, connectivity, labels) ==
    \A a, b \in ForegroundOf(img) :
        (labels.data[a] = labels.data[b]) <=> (b \in Component(img, connectivity, a))

Corners(img) ==
    {<<0, 0>>, <<0, img.width - 1>>, <<img.height - 1, 0>>,
     <<img.height - 1, img.width - 1>>}

Isolated(img, connectivity, c) ==
    /\ img.data[c] # 0
    /\ \A q \in ForegroundOf(img) : ~Adjacent(c, q, connectivity)

(***************************************************************************)
(* C1.  In the grid a finished label() call returns, two foreground pixels *)
(* have the same label if and only if a chain of adjacent foreground       *)
(* pixels (under the call's connectivity) joins them.                      *)
(***************************************************************************)
C1_PartitionCorrect ==
    \A p \in Procs :
        inv[p].pc = "done" =>
            PartitionCorrect(original, inv[p].connectivity, inv[p].labels)

\* A finished Two-Pass call that merged provisional labels: two foreground
\* pixels that are not adjacent share a label and a third has another one.
C1_Witness ==
    \E p \in Procs :
        /\ inv[p].pc = "done"
        /\ inv[p].alg = "two_pass"
        /\ \E l \in DOMAIN inv[p].parent : inv[p].parent[l] # l
        /\ \E a, b, c \in ForegroundOf(original) :
              /\ ~Adjacent(a, b, inv[p].connectivity)
              /\ a # b
              /\ inv[p].labels.data[a] = inv[p].labels.data[b]
              /\ inv[p].labels.data[a] # inv[p].labels.data[c]

(***************************************************************************)
(* C2.  For one raster and one connectivity, the grids returned by         *)
(* Two-Pass, Union-Find, Kruskal and Prim split the foreground pixels into *)
(* the same classes, and count_labels() is the same for all of them.       *)
(***************************************************************************)
LastLabels(r) == r.runs[Len(r.runs)].labels

Finished(r) == \A i \in 1 .. Len(r.runs) : r.runs[i].status = "done"

C2_PartitionEquivalence ==
    \A i, j \in 1 .. Len(results) :
        results[i].connectivity = results[j].connectivity =>
            /\ Finished(results[i])
            /\ Finished(results[j])
            /\ SamePartitionOn(ForegroundOf(original),
                               LastLabels(results[i]), LastLabels(results[j]))
            /\ results[i].num_components = results[j].num_components

\* All four algorithms have run under both connectivities on a raster with
\* more than one component, and Two-Pass and Prim numbered them differently.
C2_Witness ==
    /\ Len(results) = Len(Connectivities) * Len(Algorithms)
    /\ \E i, j \in 1 .. Len(results) :
          /\ results[i].name = "two_pass"
          /\ results[j].name = "prim"
          /\ results[i].connectivity = results[j].connectivity
          /\ results[i].num_components >= 2
          /\ LastLabels(results[i]) # LastLabels(results[j])

(***************************************************************************)
(* C3.  In the grid a finished label() call returns, the non-zero labels   *)
(* are exactly 1 .. K with K = count_labels().                             *)
(***************************************************************************)
C3_Dense ==
    \A p \in Procs :
        inv[p].pc = "done" =>
            LabelsOf(inv[p].labels) = 1 .. CountLabels(inv[p].labels)

(***************************************************************************)
(* C4.  In the grid a finished label() call returns, a cell is 0 exactly   *)
(* when the pixel is 0, and every foreground pixel has a label > 0.        *)
(***************************************************************************)
C4_BackgroundPreserved ==
    \A p \in Procs :
        inv[p].pc = "done" =>
            /\ DOMAIN inv[p].labels.data = DOMAIN original.data
            /\ \A c \in DOMAIN original.data :
                  /\ (inv[p].labels.data[c] = 0) <=> (original.data[c] = 0)
                  /\ inv[p].labels.data[c] >= 0

\* A finished call on a raster with both kinds of pixels.
C4_Witness ==
    \E p \in Procs :
        /\ inv[p].pc = "done"
        /\ Cardinality(ForegroundOf(original)) >= 3
        /\ \E c \in DOMAIN original.data : original.data[c] = 0

(***************************************************************************)
(* C5.  In every state of a label() call, and when it has returned, the    *)
(* input raster is what it was when the call started.                      *)
(***************************************************************************)
C5_InputUnchanged == image = original

\* Prim in the middle of a traversal, with pixels labelled and queued.
C5_Witness ==
    \E p \in Procs :
        /\ inv[p].pc = "bfs"
        /\ Len(inv[p].queue) >= 2
        /\ inv[p].current_label >= 2

(***************************************************************************)
(* C6.  No label() call reads or writes a cell outside the raster (no      *)
(* IndexError), and an isolated foreground pixel in a corner ends as a     *)
(* component of its own.                                                   *)
(***************************************************************************)
C6_NoOutOfBounds ==
    \A p \in Procs :
        /\ inv[p].pc # "IndexError"
        /\ inv[p].pc = "done" =>
              \A c \in Corners(original) :
                  Isolated(original, inv[p].connectivity, c) =>
                      /\ inv[p].labels.data[c] > 0
                      /\ \A q \in DOMAIN original.data \ {c} :
                            inv[p].labels.data[q] # inv[p].labels.data[c]

\* A finished 8-connectivity call on a raster whose four corners are
\* distinct isolated foreground pixels.
C6_Witness ==
    \E p \in Procs :
        /\ inv[p].pc = "done"
        /\ inv[p].connectivity = 8
        /\ Cardinality(Corners(original)) = 4
        /\ \A c \in Corners(original) : Isolated(original, 8, c)

(***************************************************************************)
(* C7.  For one raster and one algorithm, count_labels() under             *)
(* 8-connectivity is at most count_labels() under 4-connectivity, and two  *)
(* pixels with the same label under 4-connectivity have the same label     *)
(* under 8-connectivity.                                                   *)
(***************************************************************************)
C7_ConnectivityMonotone ==
    \A i, j \in 1 .. Len(results) :
        /\ results[i].name = results[j].name
        /\ results[i].connectivity = 4
        /\ results[j].connectivity = 8
        => /\ results[j].num_components <= results[i].num_components
           /\ \A a, b \in ForegroundOf(original) :
                 LastLabels(results[i]).data[a] = LastLabels(results[i]).data[b]
                 => LastLabels(results[j]).data[a] = LastLabels(results[j]).data[b]

\* An algorithm found strictly fewer components under 8-connectivity.
C7_Witness ==
    \E i, j \in 1 .. Len(results) :
        /\ results[i].name = results[j].name
        /\ results[i].connectivity = 4
        /\ results[j].connectivity = 8
        /\ results[j].num_components < results[i].num_components
        /\ results[j].num_components >= 2

(***************************************************************************)
(* C8.  Calling an algorithm again on the same raster with the same        *)
(* connectivity gives the same partition of the foreground pixels as the   *)
(* first call.                                                             *)
(***************************************************************************)
C8_RerunSamePartition ==
    \A i \in 1 .. Len(results) :
        \A r \in 1 .. Len(results[i].runs) :
            /\ results[i].runs[r].status = "done"
            /\ SamePartitionOn(ForegroundOf(original),
                               results[i].runs[1].labels,
                               results[i].runs[r].labels)

\* Prim has been called more than once on a raster with several
\* components, one of them of several pixels.
C8_Witness ==
    \E i \in 1 .. Len(results) :
        /\ results[i].name = "prim"
        /\ Len(results[i].runs) >= 2
        /\ results[i].num_components >= 2
        /\ Cardinality(ForegroundOf(original)) > results[i].num_components

(***************************************************************************)
(* C9.  With the steps of two label() calls interleaved over one shared    *)
(* raster, each call returns the grid it returns when run alone, and the   *)
(* raster is unchanged.                                                    *)
(***************************************************************************)
C9_Interleaved ==
    /\ image = original
    /\ \A p \in Procs :
          inv[p].pc \in Returned =>
              /\ inv[p].pc = "done"
              /\ inv[p].labels =
                    RunLabel(inv[p].alg, original, inv[p].connectivity).labels

\* One call has returned while a call of another algorithm is in the
\* middle of its work on the same raster.
C9_Witness ==
    /\ inv[1].pc = "done"
    /\ inv[1].alg = "prim"
    /\ inv[2].alg = "two_pass"
    /\ inv[2].pc = "second_pass"
    /\ inv[2].y > 0
    /\ CountLabels(inv[1].labels) >= 2

(***************************************************************************)
(* C10.  Every label() call terminates: no find walk fails to reach a      *)
(* root, the next step of a call that has not returned changes its state,  *)
(* every step lowers a bound on the steps that remain, and the call        *)
(* returns with every foreground pixel labelled.                           *)
(***************************************************************************)
Complete(f) ==
    /\ DOMAIN f.labels.data = DOMAIN original.data
    /\ \A c \in ForegroundOf(original) : f.labels.data[c] > 0

\* The cells the scan at (x, y) has still to visit.
Remaining(f) == (f.height - f.x) * f.width - f.y

Unlabelled(f) ==
    Cardinality({c \in ForegroundOf(original) : f.labels.data[c] = 0})

\* A bound on the steps a call has still to take.  Every loop iteration
\* of the code lowers it: a scan moves to the next cell, the loop over the
\* edges to the next edge, and a traversal step removes one pixel from the
\* queue and queues only pixels that were unlabelled.
Measure(f) ==
    LET N == original.width * original.height
    IN IF f.pc = "idle" THEN 7 * N + 3
       ELSE IF f.pc \in {"first_pass", "unite_pass"} THEN N + Remaining(f)
       ELSE IF f.pc \in {"second_pass", "compact_pass"} THEN Remaining(f)
       ELSE IF f.pc = "build_edges"
       THEN 2 * N + 2 + 5 * Remaining(f) + Len(f.edges)
       ELSE IF f.pc = "sort" THEN 2 * N + 1 + Len(f.edges)
       ELSE IF f.pc = "unite_edges" THEN N + Len(f.edges) - f.edge_i + 1
       ELSE IF f.pc \in {"scan", "bfs"}
       THEN Remaining(f) + 2 * Unlabelled(f) + Len(f.queue)
       ELSE 0

C11_ZeroSetOnly ==
    inv[1].pc \in Returned =>
        LET ref == RunLabel(inv[1].alg, Binarize(original, 1),
                            inv[1].connectivity)
        IN /\ inv[1].pc = ref.pc
           /\ inv[1].labels = ref.labels

C11_Witness ==
    /\ inv[1].pc = "done"
    /\ \E c, d \in DOMAIN image.data :
          /\ image.data[c] = 1
          /\ image.data[d] = 7
          /\ Adjacent(c, d, inv[1].connectivity)
          /\ inv[1].labels.data[c] = inv[1].labels.data[d]
          /\ inv[1].labels.data[c] > 0

(***************************************************************************)
(* C15. On the checkerboard raster every algorithm returns normally; under *)
(* 4-connectivity the number of components is the number of object pixels  *)
(* (8 on the 4x4 checkerboard), each object pixel alone in its component,  *)
(* and under 8-connectivity there is one component.                        *)
(***************************************************************************)
C15_Checkerboard ==
    inv[1].pc \in Returned =>
        /\ inv[1].pc = "done"
        /\ inv[1].connectivity = 4 =>
              /\ CountLabels(inv[1].labels) = Cardinality(ForegroundOf(image))
              /\ CheckerSize = 4 => CountLabels(inv[1].labels) = 8
        /\ inv[1].connectivity = 8 => CountLabels(inv[1].labels) = 1

C15_Witness ==
    /\ inv[1].pc = "done"
    /\ inv[1].alg = "kruskal"
    /\ inv[1].connectivity = 4
    /\ image.width = 4 /\ image.height = 4
    /\ CountLabels(inv[1].labels) = 8

(***************************************************************************)
(* C12. On an Image and on a LabelImage, at(x, y) and set_at(x, y, value)  *)
(* raise IndexError whenever x is outside [0, height) or y is outside      *)
(* [0, width), negative coordinates included, and return normally          *)
(* otherwise; a call that raises leaves the grid as it was.                *)
(***************************************************************************)
C12_OutOfBounds ==
    call.method \in {"at", "set_at"} =>
        LET x == call.args[1]
            y == call.args[2]
            inside == /\ x \in 0 .. call.self.height - 1
                      /\ y \in 0 .. call.self.width - 1
        IN /\ ~inside => call.status = "IndexError"
           /\ inside => call.status = "returned"
           /\ call.status = "IndexError" => object = call.self

C12_Witness ==
    /\ call.method = "set_at"
    /\ call.self.class = "LabelImage"
    /\ call.args[1] < 0
    /\ call.args[2] \in 0 .. call.self.width - 1
    /\ call.self.height > 0
    /\ call.status = "IndexError"
    /\ \E c \in DOMAIN object.data : object.data[c] # 0

(***************************************************************************)
(* C13. Image.set_at at a valid coordinate stores 0 for a value below 0,   *)
(* 255 for a value above 255 and the value itself otherwise, and changes   *)
(* no other cell; every cell of an Image that was only written by set_at   *)
(* lies in [0, 255].  LabelImage.set_at stores the value as given and      *)
(* changes no other cell.                                                  *)
(***************************************************************************)
C13_Clamp ==
    /\ object.class = "Image" =>
          \A c \in DOMAIN object.data : object.data[c] \in 0 .. 255
    /\ call.method = "set_at" /\ call.status = "returned" =>
          LET c == <<call.args[1], call.args[2]>>
              value == call.args[3]
          IN /\ DOMAIN object.data = DOMAIN call.self.data
             /\ \A d \in DOMAIN object.data \ {c} :
                   object.data[d] = call.self.data[d]
             /\ object.class = "Image" /\ value < 0 => object.data[c] = 0
             /\ object.class = "Image" /\ value > 255 => object.data[c] = 255
             /\ object.class = "Image" /\ value \in 0 .. 255 =>
                   object.data[c] = value
             /\ object.class = "LabelImage" => object.data[c] = value

C13_Witness ==
    /\ object.class = "Image"
    /\ call.method = "set_at"
    /\ call.status = "returned"
    /\ call.args[3] < 0
    /\ call.self.data[<<call.args[1], call.args[2]>>] = 255
    /\ object.data[<<call.args[1], call.args[2]>>] = 0
    /\ \E d \in DOMAIN object.data : object.data[d] = 255

(***************************************************************************)
(* C14. count_labels() returns the number of distinct values > 0 in the    *)
(* label grid, whatever set_at and fill calls came before: 0 and negative  *)
(* values are not counted, a repeated value counts once; the call leaves   *)
(* the grid as it was.                                                     *)
(***************************************************************************)
C14_CountLabels ==
    call.method = "count_labels" =>
        /\ call.status = "returned"
        /\ call.value =
              Cardinality({v \in GridValues :
                              /\ v > 0
                              /\ \E c \in DOMAIN object.data : object.data[c] = v})
        /\ object = call.self

C14_Witness ==
    /\ call.method = "count_labels"
    /\ call.value = 1
    /\ \E c, d, e, g \in DOMAIN object.data :
          /\ c # d
          /\ object.data[c] = object.data[d]
          /\ object.data[c] > 0
          /\ object.data[e] = 0
          /\ object.data[g] < 0

(***************************************************************************)
(* Reference notions for the union-find structures: the root an element's  *)
(* parent pointers lead to (followed without changing them), the class of  *)
(* an element (the elements with the same root) and the partition.         *)
(***************************************************************************)
RECURSIVE RootOf(_, _)
RootOf(parent, x) == IF parent[x] = x THEN x ELSE RootOf(parent, parent[x])

ClassOf(parent, x) == {m \in DOMAIN parent : RootOf(parent, m) = RootOf(parent, x)}

PartitionOf(parent) == {ClassOf(parent, x) : x \in DOMAIN parent}

MinOf(S) == CHOOSE m \in S : \A n \in S : m <= n

\* The entry of the table an argument of find / unite stands for: 0 for
\* what is not a label of the table.
EntryOf(parent, x) == IF x \in DOMAIN parent THEN x ELSE 0

\* The partition after the classes of a and b are merged.
Merged(parent, a, b) ==
    LET A == ClassOf(parent, a)
        B == ClassOf(parent, b)
    IN (PartitionOf(parent) \ {A, B}) \cup {A \cup B}

(***************************************************************************)
(* C16. In the EquivalenceTable, after any sequence of make_set, unite and *)
(* find calls every label l >= 1 has parent[l] <= l and the root of every  *)
(* class is the least entry of the class; a unite of two classes puts the  *)
(* larger root under the smaller one and merges exactly these two classes. *)
(***************************************************************************)
C16_MinRoot ==
    object.class = "EquivalenceTable" =>
        /\ call.status \in {"none", "returned"}
        /\ \A l \in DOMAIN object.parent : object.parent[l] <= l
        /\ \A l \in DOMAIN object.parent :
              RootOf(object.parent, l) = MinOf(ClassOf(object.parent, l))
        /\ call.method = "unite" =>
              LET before == call.self.parent
                  root_x == RootOf(before, EntryOf(before, call.args[1]))
                  root_y == RootOf(before, EntryOf(before, call.args[2]))
                  small == IF root_x < root_y THEN root_x ELSE root_y
                  large == IF root_x < root_y THEN root_y ELSE root_x
              IN /\ object.parent[large] = small
                 /\ object.parent[small] = small
                 /\ PartitionOf(object.parent) = Merged(before, root_x, root_y)
        /\ LET before == call.self.parent
               Labels(parent) == DOMAIN parent \ {0}
           IN /\ call.method \in {"make_set", "find", "unite"}
              /\ \A i \in DOMAIN call.args : call.args[i] \in Labels(before)
              /\ \A l \in Labels(before) : before[l] >= 1
              => \A l \in Labels(object.parent) :
                    RootOf(object.parent, l) >= 1

C16_Witness ==
    /\ object.class = "EquivalenceTable"
    /\ call.method = "unite"
    /\ LET before == call.self.parent
           x == call.args[1]
           y == call.args[2]
       IN /\ x \in DOMAIN before /\ y \in DOMAIN before
          /\ RootOf(before, x) > RootOf(before, y)
          /\ RootOf(before, y) > 0
          /\ x # RootOf(before, x)
          /\ Cardinality(ClassOf(before, y)) >= 2
          /\ RootOf(object.parent, x) = RootOf(before, y)

(***************************************************************************)
(* C17. One iteration of Two-Pass's first pass, at the pixel c of the      *)
(* row-major scan.  A background pixel gets label 0.  An object pixel with *)
(* no labelled object pixel among its causal neighbours (north, west;      *)
(* with 8-connectivity also north-west and north-east) gets the fresh      *)
(* label of make_set, which is 1, 2, 3, ... in order and never 0, entered  *)
(* in the table as its own root.  An object pixel with such neighbours     *)
(* gets the minimum of their labels, and the classes of all their labels   *)
(* are merged into one, no other class changing.  No other cell of the     *)
(* label grid changes.                                                     *)
(***************************************************************************)
CausalNeighbors(c, connectivity, grid) ==
    {n \in DOMAIN grid.data :
        /\ Adjacent(n, c, connectivity)
        /\ n[1] < c[1] \/ (n[1] = c[1] /\ n[2] < c[2])}

MaxLabelIn(grid) ==
    LET used == {grid.data[c] : c \in DOMAIN grid.data} \cup {0}
    IN CHOOSE m \in used : \A n \in used : n <= m

C17_FirstPass ==
    [][inv[1].alg = "two_pass" /\ inv[1].pc = "first_pass" =>
        LET f == inv[1]
            g == inv'[1]
            c == <<f.x, f.y>>
            L == {f.labels.data[n] :
                    n \in {m \in CausalNeighbors(c, f.connectivity, image) :
                              image.data[m] # 0 /\ f.labels.data[m] > 0}}
        IN /\ g.pc \in {"first_pass", "second_pass"}
           /\ \A d \in DOMAIN f.labels.data \ {c} :
                 g.labels.data[d] = f.labels.data[d]
           /\ image.data[c] = 0 =>
                 /\ g.labels.data[c] = 0
                 /\ g.parent = f.parent
           /\ image.data[c] # 0 /\ L = {} =>
                 /\ g.labels.data[c] = MaxLabelIn(f.labels) + 1
                 /\ g.labels.data[c] = TableLen(f.parent)
                 /\ DOMAIN g.parent = DOMAIN f.parent \cup {g.labels.data[c]}
                 /\ g.parent[g.labels.data[c]] = g.labels.data[c]
                 /\ \A l \in DOMAIN f.parent : g.parent[l] = f.parent[l]
           /\ image.data[c] # 0 /\ L # {} =>
                 /\ g.labels.data[c] = MinOf(L)
                 /\ DOMAIN g.parent = DOMAIN f.parent
                 /\ \A l \in L :
                       RootOf(g.parent, l) = RootOf(g.parent, MinOf(L))
                 /\ PartitionOf(g.parent) =
                       {K \in PartitionOf(f.parent) : K \cap L = {}}
                       \cup {UNION {K \in PartitionOf(f.parent) : K \cap L # {}}}
    ]_vars

C17_Witness ==
    /\ inv[1].alg = "two_pass"
    /\ inv[1].pc = "first_pass"
    /\ \E c \in DOMAIN image.data :
          \E n1, n2 \in CausalNeighbors(c, inv[1].connectivity, image) :
             LET labels == inv[1].labels.data
             IN /\ c[1] < inv[1].x
                /\ labels[n1] > labels[n2]
                /\ labels[n2] > 0
                /\ labels[c] = labels[n2]
                /\ RootOf(inv[1].parent, labels[n1]) = labels[n2]

(***************************************************************************)
(* C18. Whatever the order in which the second pass visits the cells, a    *)
(* cell with provisional label l > 0 ends with the root of l's class in    *)
(* the table the first pass left, a cell not visited yet keeps its         *)
(* provisional label, the path compression of the find calls made so far   *)
(* leaves the root of every label as it was, and the final label grid is   *)
(* the one the row-major scan of the code returns.                         *)
(***************************************************************************)
C18_AnyOrder ==
    LET f == inv[1]
        base == RunFirstPass(TwoPassLabel(original, f.connectivity))
        cells == DOMAIN base.labels.data
    IN /\ f.pc \in {"second_pass", "done"}
       /\ DOMAIN f.parent = DOMAIN base.parent
       /\ \A l \in DOMAIN base.parent :
             RootOf(f.parent, l) = RootOf(base.parent, l)
       /\ \A c \in cells \cap f.visited :
             f.labels.data[c] = RootOf(base.parent, base.labels.data[c])
       /\ \A c \in cells \ f.visited :
             f.labels.data[c] = base.labels.data[c]
       /\ f.pc = "done" =>
             f.labels = RunLabel("two_pass", original, f.connectivity).labels

C18_Witness ==
    LET f == inv[1]
        base == RunFirstPass(TwoPassLabel(original, f.connectivity))
    IN /\ f.pc = "done"
       /\ HasPath(base.parent)
       /\ ~HasPath(f.parent)
       /\ \E c \in DOMAIN f.labels.data :
             /\ base.labels.data[c] > 0
             /\ base.parent[base.labels.data[c]] # f.labels.data[c]
             /\ base.labels.data[c] # f.labels.data[c]

(***************************************************************************)
(* C19. In DisjointSet and DisjointSetKruskal, unite(x, y) on elements     *)
(* with different roots returns True; it puts the root of lower rank under *)
(* the root of higher rank and leaves every rank as it was, or, on equal   *)
(* ranks, puts y's root under x's root and adds exactly one to the rank of *)
(* x's root; the two sets become one and every other set keeps its         *)
(* members.                                                                *)
(***************************************************************************)
C19_UnionByRank ==
    object.class \in DisjointSetClasses /\ call.method = "unite" =>
        LET parent == call.self.parent
            rank == call.self.rank
            root_x == RootOf(parent, call.args[1])
            root_y == RootOf(parent, call.args[2])
        IN root_x # root_y =>
              /\ call.status = "returned"
              /\ call.value = TRUE
              /\ rank[root_x] < rank[root_y] =>
                    /\ object.parent[root_x] = root_y
                    /\ object.parent[root_y] = root_y
                    /\ object.rank = rank
              /\ rank[root_x] > rank[root_y] =>
                    /\ object.parent[root_y] = root_x
                    /\ object.parent[root_x] = root_x
                    /\ object.rank = rank
              /\ rank[root_x] = rank[root_y] =>
                    /\ object.parent[root_y] = root_x
                    /\ object.parent[root_x] = root_x
                    /\ object.rank = [rank EXCEPT ![root_x] = rank[root_x] + 1]
              /\ PartitionOf(object.parent) = Merged(parent, root_x, root_y)

C19_Witness ==
    /\ object.class = "DisjointSetKruskal"
    /\ call.method = "unite"
    /\ call.value = TRUE
    /\ LET parent == call.self.parent
           rank == call.self.rank
           root_x == RootOf(parent, call.args[1])
           root_y == RootOf(parent, call.args[2])
       IN /\ rank[root_x] < rank[root_y]
          /\ object.parent[root_x] = root_y
          /\ Cardinality(PartitionOf(object.parent)) >= 2

(***************************************************************************)
(* C20. In DisjointSet, DisjointSetKruskal and EquivalenceTable,           *)
(* unite(x, y) on arguments whose roots already match merges nothing: the  *)
(* partition into sets, the root of every element and every rank stay as   *)
(* they were, and the rank-based structures return False.                  *)
(***************************************************************************)
C20_UniteNoOp ==
    call.method = "unite" =>
        LET parent == call.self.parent
            root_x == RootOf(parent, EntryOf(parent, call.args[1]))
            root_y == RootOf(parent, EntryOf(parent, call.args[2]))
        IN root_x = root_y =>
              /\ call.status = "returned"
              /\ PartitionOf(object.parent) = PartitionOf(parent)
              /\ \A e \in DOMAIN parent :
                    RootOf(object.parent, e) = RootOf(parent, e)
              /\ object.class \in DisjointSetClasses =>
                    /\ object.rank = call.self.rank
                    /\ call.value = FALSE

C20_Witness ==
    /\ call.method = "unite"
    /\ object.class = "DisjointSet"
    /\ call.value = FALSE
    /\ call.args[1] # call.args[2]
    /\ object.parent # call.self.parent
    /\ \E e \in DOMAIN object.rank : object.rank[e] >= 2

(***************************************************************************)
(* C21. After any sequence of unite and find calls on a DisjointSet or a   *)
(* DisjointSetKruskal, the parent pointers form a forest (following them   *)
(* from any element ends at a root, the only cycles being the roots'       *)
(* self-loops), every element that is not a root has a rank below its      *)
(* parent's, a tree whose root has rank r holds at least 2^r elements, and *)
(* an element at depth h is in a tree of at least 2^h elements, so no      *)
(* depth exceeds log2 of the number of elements.                           *)
(***************************************************************************)
RECURSIVE WalkUp(_, _, _)
WalkUp(parent, x, steps) ==
    IF steps = 0 THEN x ELSE WalkUp(parent, parent[x], steps - 1)

RECURSIVE DepthOf(_, _)
DepthOf(parent, x) == IF parent[x] = x THEN 0 ELSE 1 + DepthOf(parent, parent[x])

C21_RankForest ==
    object.class \in DisjointSetClasses =>
        LET parent == object.parent
            rank == object.rank
            size == Cardinality(DOMAIN parent)
        IN /\ call.status \in {"none", "returned"}
           /\ \A x \in DOMAIN parent : parent[x] \in DOMAIN parent
           /\ \A x \in DOMAIN parent :
                 LET top == WalkUp(parent, x, size) IN parent[top] = top
           /\ \A x \in DOMAIN parent :
                 parent[x] # x => rank[x] < rank[parent[x]]
           /\ \A x \in DOMAIN parent :
                 parent[x] = x =>
                    Cardinality(ClassOf(parent, x)) >= 2 ^ rank[x]
           /\ \A x \in DOMAIN parent :
                 /\ DepthOf(parent, x) <= rank[RootOf(parent, x)]
                 /\ 2 ^ DepthOf(parent, x) <= Cardinality(ClassOf(parent, x))
                 /\ 2 ^ DepthOf(parent, x) <= size

C21_Witness ==
    /\ object.class = "DisjointSet"
    /\ \E x \in DOMAIN object.parent :
          /\ DepthOf(object.parent, x) = 2
          /\ object.rank[RootOf(object.parent, x)] = 2
          /\ object.rank[object.parent[x]] = 1
          /\ Cardinality(ClassOf(object.parent, x)) = 4

(***************************************************************************)
(* C22. In UnionFind.label and Kruskal.label the compact labels are handed *)
(* out in the order of discovery of the row-major scan: the component      *)
(* whose first pixel comes i-th among the first pixels of all components   *)
(* gets label i, whichever element is the root of its set, and the         *)
(* root-to-label map is a bijection between the roots of the foreground    *)
(* sets met so far and the labels handed out so far (1 .. K at the end).   *)
(***************************************************************************)
\* The linear index of the first pixel, in row-major order, of c's component.
FirstIndex(img, connectivity, c) ==
    MinOf({GetIndex(d[1], d[2], img.width) : d \in Component(img, connectivity, c)})

FirstIndexes(img, connectivity) ==
    {FirstIndex(img, connectivity, c) : c \in ForegroundOf(img)}

\* The position of c's component in the order of the first pixels.
DiscoveryRank(img, connectivity, c) ==
    Cardinality({i \in FirstIndexes(img, connectivity) :
                    i <= FirstIndex(img, connectivity, c)})

\* The foreground pixels the scan of frame f has visited so far.
Scanned(f) ==
    {c \in ForegroundOf(f.input_image) :
        f.pc = "done" \/ GetIndex(c[1], c[2], f.width) < GetIndex(f.x, f.y, f.width)}

Compacting(f) ==
    /\ f.alg \in {"union_find", "kruskal"}
    /\ f.pc \in {"compact_pass", "done"}

C22_DiscoveryOrder ==
    \A p \in Procs :
        LET f == inv[p]
            img == f.input_image
            roots == {RootOf(f.parent, GetIndex(c[1], c[2], f.width)) : c \in Scanned(f)}
        IN Compacting(f) =>
             /\ \A c \in Scanned(f) :
                  /\ f.labels.data[c] = DiscoveryRank(img, f.connectivity, c)
                  /\ f.labels.data[c] =
                        f.root_to_label[RootOf(f.parent, GetIndex(c[1], c[2], f.width))]
             /\ \A r \in DOMAIN f.root_to_label :
                  (f.root_to_label[r] # 0) <=> (r \in roots)
             /\ \A r, s \in roots :
                  f.root_to_label[r] = f.root_to_label[s] => r = s
             /\ {f.root_to_label[r] : r \in roots} = 1 .. (f.next_label - 1)
             /\ f.pc = "done" =>
                  f.next_label - 1 = ComponentCount(img, f.connectivity)

\* Two components, and the root of the second one's set is neither its
\* first pixel nor the first pixel met by the scan.
C22_Witness ==
    \E p \in Procs :
        LET f == inv[p] IN
        /\ Compacting(f)
        /\ f.pc = "done"
        /\ f.alg = "union_find"
        /\ \E c \in ForegroundOf(f.input_image) :
             /\ f.labels.data[c] = 2
             /\ RootOf(f.parent, GetIndex(c[1], c[2], f.width))
                    # FirstIndex(f.input_image, f.connectivity, c)
             /\ f.root_to_label[RootOf(f.parent, GetIndex(c[1], c[2], f.width))] = 2

(***************************************************************************)
(* C23. Kruskal._build_edges emits an edge only from a foreground pixel to *)
(* a foreground causal neighbour (north, west for 4-connectivity;          *)
(* north-west, north, north-east, west for 8-connectivity), the endpoints  *)
(* being linear indices x * width + y in [0, width * height).  Every pair  *)
(* of foreground pixels adjacent under the connectivity is exactly one     *)
(* edge, no unordered pair appears twice and no edge touches a background  *)
(* pixel.                                                                  *)
(***************************************************************************)
\* The cell a linear index stands for.
CellOf(idx, width) == <<idx \div width, idx % width>>

CausalOffsets(connectivity) ==
    IF connectivity = 4 THEN {<<-1, 0>>, <<0, -1>>}
    ELSE {<<-1, -1>>, <<-1, 0>>, <<-1, 1>>, <<0, -1>>}

\* The positions in the edge list that join the cells a and b.
EdgesBetween(f, a, b) ==
    {i \in 1 .. Len(f.edges) :
        {f.edges[i].u, f.edges[i].v} =
            {GetIndex(a[1], a[2], f.width), GetIndex(b[1], b[2], f.width)}}

\* The foreground pixels _build_edges has visited in frame f.
EdgeSources(f) ==
    {c \in ForegroundOf(f.input_image) :
        f.pc # "build_edges"
            \/ GetIndex(c[1], c[2], f.width) < GetIndex(f.x, f.y, f.width)}

C23_BuildEdges ==
    \A p \in Procs :
        LET f == inv[p]
            img == f.input_image
            fg == ForegroundOf(img)
        IN (f.alg = "kruskal" /\ f.pc \notin {"IndexError", "RecursionError"}) =>
             /\ \A i \in 1 .. Len(f.edges) :
                  LET e == f.edges[i]
                      a == CellOf(e.u, f.width)
                      b == CellOf(e.v, f.width)
                  IN /\ e.u \in 0 .. f.width * f.height - 1
                     /\ e.v \in 0 .. f.width * f.height - 1
                     /\ e.weight = 1
                     /\ a \in fg
                     /\ b \in fg
                     /\ <<b[1] - a[1], b[2] - a[2]>> \in CausalOffsets(f.connectivity)
                     /\ a \in EdgeSources(f)
             /\ \A i, j \in 1 .. Len(f.edges) :
                  {f.edges[i].u, f.edges[i].v} = {f.edges[j].u, f.edges[j].v} => i = j
             /\ \A a \in EdgeSources(f) : \A b \in fg :
                  (/\ Adjacent(a, b, f.connectivity)
                   /\ GetIndex(b[1], b[2], f.width) < GetIndex(a[1], a[2], f.width))
                      => Cardinality(EdgesBetween(f, a, b)) = 1
             /\ f.pc # "build_edges" =>
                  \A a, b \in fg :
                      Cardinality(EdgesBetween(f, a, b)) =
                          IF Adjacent(a, b, f.connectivity) THEN 1 ELSE 0

\* The edge list of an 8-connectivity call is complete and holds edges to
\* the north-west, north, north-east and west, next to a background pixel.
C23_Witness ==
    \E p \in Procs :
        LET f == inv[p] IN
        /\ f.alg = "kruskal"
        /\ f.pc = "sort"
        /\ f.connectivity = 8
        /\ ForegroundOf(f.input_image) # DOMAIN f.input_image.data
        /\ \A o \in CausalOffsets(8) :
             \E i \in 1 .. Len(f.edges) :
                LET a == CellOf(f.edges[i].u, f.width)
                    b == CellOf(f.edges[i].v, f.width)
                IN <<b[1] - a[1], b[2] - a[2]>> = o

(***************************************************************************)
(* EdgeOrderSpec: Kruskal with its edge list in any order.  A call starts  *)
(* where Kruskal.label is when _build_edges has returned.  The list is     *)
(* reordered by exchanges of neighbouring edges before the sort; then the  *)
(* call sorts (the code) or skips the sort, and goes through the union     *)
(* pass and the compaction of the code.                                    *)
(***************************************************************************)
EdgeOrderPixels == 6

MaxEdges == 6

RECURSIVE RunBuildEdges(_)
RunBuildEdges(f) ==
    IF f.pc = "build_edges" THEN RunBuildEdges(KruskalBuildEdgesStep(f)) ELSE f

EdgeOrderInit ==
    /\ image \in Rasters(EdgeOrderPixels)
    /\ original = image
    /\ \E connectivity \in ConnectivityValues :
          LET f == RunBuildEdges(KruskalLabel(image, connectivity))
          IN /\ f.pc = "sort"
             /\ Len(f.edges) <= MaxEdges
             /\ inv = [p \in 1 .. 1 |-> f]
    /\ results = <<>>
    /\ object = NoObject
    /\ call = NoMethodCall

ReorderEdges ==
    \E p \in Procs :
        /\ inv[p].alg = "kruskal"
        /\ inv[p].pc = "sort"
        /\ \E i \in 1 .. Len(inv[p].edges) - 1 :
              LET edges == inv[p].edges
              IN inv' = [inv EXCEPT ![p].edges =
                            [edges EXCEPT ![i] = edges[i + 1], ![i + 1] = edges[i]]]
        /\ UNCHANGED <<image, original, results, object, call>>

\* KruskalSortStep without "edges.sort()".
KruskalSkipSortStep(f) ==
    LET ds == NewDisjointSet(f.width * f.height)
        g == [f EXCEPT !.parent = ds.parent, !.rank = ds.rank, !.edge_i = 1]
    IN IF Len(g.edges) = 0
       THEN StartCompaction([g EXCEPT !.pc = "compact_pass"])
       ELSE [g EXCEPT !.pc = "unite_edges"]

SkipSort ==
    \E p \in Procs :
        /\ inv[p].alg = "kruskal"
        /\ inv[p].pc = "sort"
        /\ inv' = [inv EXCEPT ![p] = KruskalSkipSortStep(inv[p])]
        /\ UNCHANGED <<image, original, results, object, call>>

EdgeOrderNext ==
    \/ ReorderEdges
    \/ KruskalSort
    \/ SkipSort
    \/ KruskalUniteEdges
    \/ KruskalCompact

EdgeOrderSpec == EdgeOrderInit /\ [][EdgeOrderNext]_vars

(***************************************************************************)
(* C24. The output of Kruskal.label does not depend on the order in which  *)
(* the union pass processes the edges: sorting the unit-weight edge list   *)
(* leaves its order unchanged, skipping the sort changes nothing, and for  *)
(* every permutation of the edge list the returned label grid is the same. *)
(***************************************************************************)
\* The edges of frame f are those _build_edges returns, in some order.
SameEdges(f, built) ==
    /\ Len(f.edges) = Len(built)
    /\ \A e \in {built[i] : i \in 1 .. Len(built)} :
          Cardinality({i \in 1 .. Len(built) : f.edges[i] = e}) = 1

C24_EdgeOrder ==
    \A p \in Procs :
        LET f == inv[p]
            code == RunLabel("kruskal", image, f.connectivity)
            built == RunBuildEdges(KruskalLabel(image, f.connectivity)).edges
        IN f.alg = "kruskal" =>
             /\ f.pc \in {"sort", "unite_edges", "compact_pass", "done"}
             /\ SameEdges(f, built)
             /\ SortEdges(f.edges) = f.edges
             /\ f.pc = "sort" => KruskalSortStep(f) = KruskalSkipSortStep(f)
             /\ f.pc = "done" =>
                  /\ code.pc = "done"
                  /\ f.labels = code.labels

\* A call has returned after a union pass over the edges in another order
\* than the code's, which left other roots than the code's order does.
C24_Witness ==
    \E p \in Procs :
        LET f == inv[p]
            code == RunLabel("kruskal", image, f.connectivity)
        IN /\ f.alg = "kruskal"
           /\ f.pc = "done"
           /\ f.edges # code.edges
           /\ \E x \in DOMAIN f.parent :
                 RootOf(f.parent, x) # RootOf(code.parent, x)
           /\ Cardinality(LabelsOf(f.labels)) >= 2

(***************************************************************************)
(* PrimTraceSpec: one Prim.label call, one loop iteration per step, with   *)
(* the operations on the queue of _bfs written to a trace: "append" for    *)
(* queue.append, "popleft" for queue.popleft, each with its pixel.         *)
(***************************************************************************)
QueueEvent(op, pixel) == [op |-> op, pixel |-> pixel]

\* The queue operations of the step from frame f to frame g: a popleft of
\* the head when the step is an iteration of "while queue", then an append
\* for each pixel the step has put behind what was left of the queue.
QueueEvents(f, g) ==
    LET kept == IF f.pc = "bfs" THEN Len(f.queue) - 1 ELSE 0
        popped == IF f.pc = "bfs"
                  THEN <<QueueEvent("popleft", Head(f.queue))>> ELSE <<>>
    IN popped \o [i \in 1 .. Len(g.queue) - kept |->
                     QueueEvent("append", g.queue[kept + i])]

CallPrim ==
    \E p \in Procs :
        /\ inv[p].pc = "idle"
        /\ \E connectivity \in ConnectivityValues :
              inv' = [inv EXCEPT ![p] = Label("prim", image, connectivity)]
        /\ UNCHANGED <<image, original, results, object, call>>

TracedIterate(p, phase) ==
    /\ inv[p].alg = "prim"
    /\ inv[p].pc = phase
    /\ LET f == [inv[p] EXCEPT !.input_image = image]
           g == Step(f)
       IN /\ inv' = [inv EXCEPT ![p] = g]
          /\ image' = g.input_image
          /\ results' = results \o QueueEvents(f, g)
    /\ UNCHANGED <<original, object, call>>

TracedPrimScan == \E p \in Procs : TracedIterate(p, "scan")

TracedPrimBfs == \E p \in Procs : TracedIterate(p, "bfs")

PrimTraceNext ==
    \/ CallPrim
    \/ TracedPrimScan
    \/ TracedPrimBfs

PrimTraceSpec == Init /\ [][PrimTraceNext]_vars

(***************************************************************************)
(* C25. In Prim.label, over the whole call (all traversals together),      *)
(* every foreground pixel is enqueued exactly once and dequeued exactly    *)
(* once and no background pixel is ever enqueued: a pixel is labelled at   *)
(* the moment it is enqueued, so it is never enqueued again by the same or *)
(* a later traversal.                                                      *)
(***************************************************************************)
\* The pixels of the events of one kind, in the order of the trace.
PixelsOf(trace, op) ==
    LET events == SelectSeq(trace, LAMBDA e : e.op = op)
    IN [i \in 1 .. Len(events) |-> events[i].pixel]

\* How many times pixel c is in the sequence.
TimesIn(pixels, c) == Cardinality({i \in 1 .. Len(pixels) : pixels[i] = c})

C25_EnqueuedOnce ==
    \A p \in Procs :
        LET f == inv[p]
            appended == PixelsOf(results, "append")
            popped == PixelsOf(results, "popleft")
            labelled == {c \in DOMAIN f.labels.data : f.labels.data[c] > 0}
        IN f.alg = "prim" =>
             /\ f.pc \in {"scan", "bfs", "done"}
             /\ \A c \in DOMAIN image.data :
                  /\ TimesIn(appended, c) = IF c \in labelled THEN 1 ELSE 0
                  /\ TimesIn(popped, c) <= TimesIn(appended, c)
                  /\ image.data[c] = 0 => TimesIn(appended, c) = 0
             /\ Len(popped) <= Len(appended)
             /\ popped = SubSeq(appended, 1, Len(popped))
             /\ f.queue = SubSeq(appended, Len(popped) + 1, Len(appended))
             /\ f.pc = "done" =>
                  \A c \in DOMAIN image.data :
                      /\ TimesIn(appended, c) = IF image.data[c] # 0 THEN 1 ELSE 0
                      /\ TimesIn(popped, c) = TimesIn(appended, c)

\* A call has returned after two traversals, one of which met a pixel
\* again that was in the queue already, next to a background pixel.
C25_Witness ==
    \E p \in Procs :
        LET f == inv[p] IN
        /\ f.alg = "prim"
        /\ f.pc = "done"
        /\ f.current_label = 2
        /\ Len(PixelsOf(results, "popleft")) >= 5
        /\ \E c \in DOMAIN image.data : image.data[c] = 0
        /\ \E a, b, c \in ForegroundOf(image) :
             /\ a # b /\ b # c /\ a # c
             /\ Adjacent(a, b, f.connectivity)
             /\ Adjacent(b, c, f.connectivity)
             /\ Adjacent(a, c, f.connectivity)

(***************************************************************************)
(* C26. When a breadth-first traversal started by Prim.label at an         *)
(* unlabelled foreground seed ends (queue empty), exactly the foreground   *)
(* pixels reachable from the seed through the full 4- or 8-neighbourhood   *)
(* carry the traversal's label, and no pixel labelled by an earlier        *)
(* traversal has had its label changed.  The labels come from a counter    *)
(* that increases by one per traversal, so the number of traversals        *)
(* launched is the component count K.                                      *)
(***************************************************************************)
LabelledWith(grid, label) == {c \in DOMAIN grid.data : grid.data[c] = label}

\* The step from frame f to frame g launches a traversal.
Launches(f, g) == f.pc = "scan" /\ g.pc = "bfs"

\* The step from frame f to frame g ends a traversal.
EndsTraversal(f, g) == f.pc = "bfs" /\ g.pc \in {"scan", "done"}

C26_PrimStep ==
    \A p \in Procs :
        LET f == inv[p]
            g == inv'[p]
            seed == <<f.x, f.y>>
        IN (f.alg = "prim" /\ g.alg = "prim") =>
             /\ g.pc \in {"scan", "bfs", "done"}
             /\ \A c \in DOMAIN f.labels.data :
                  f.labels.data[c] > 0 => g.labels.data[c] = f.labels.data[c]
             /\ \A c \in DOMAIN f.labels.data :
                  g.labels.data[c] # f.labels.data[c] =>
                      g.labels.data[c] = g.current_label
             /\ g.current_label = f.current_label + (IF Launches(f, g) THEN 1 ELSE 0)
             /\ Launches(f, g) =>
                  /\ image.data[seed] # 0
                  /\ f.labels.data[seed] = 0
                  /\ LabelledWith(f.labels, g.current_label) = {}
                  /\ g.labels.data[seed] = g.current_label
                  /\ g.queue = <<seed>>
                  /\ <<g.x, g.y>> = seed
             /\ f.pc = "bfs" => (g.pc = "bfs" <=> g.queue # <<>>)
             /\ EndsTraversal(f, g) =>
                  /\ g.queue = <<>>
                  /\ LabelledWith(g.labels, f.current_label) =
                        Component(image, f.connectivity, seed)
                  /\ \A l \in 1 .. f.current_label - 1 :
                        LabelledWith(g.labels, l) = LabelledWith(f.labels, l)
             /\ g.pc = "done" =>
                  g.current_label = ComponentCount(image, g.connectivity)

\* C26: every step of a Prim call launches, continues or ends a traversal
\* as stated.
C26_Traversals == [][C26_PrimStep]_vars

\* The second traversal has ended with several pixels, one of them below
\* and to the left of the seed's column, and a third component is left.
C26_Witness ==
    \E p \in Procs :
        LET f == inv[p] IN
        /\ f.alg = "prim"
        /\ f.pc = "scan"
        /\ f.current_label = 2
        /\ \E c \in LabelledWith(f.labels, 2) :
             /\ GetIndex(c[1], c[2], f.width) < GetIndex(f.x, f.y, f.width)
             /\ \E d \in LabelledWith(f.labels, 2) : d[1] > c[1] /\ d[2] < c[2]
        /\ \E c \in ForegroundOf(image) : f.labels.data[c] = 0

(***************************************************************************)
(* C27. During every label() execution each pixel is in exactly one of the *)
(* states unvisited-background, unvisited-foreground, labelled; the only   *)
(* transition is unvisited-foreground -> labelled and it is never reversed *)
(* (a cell of the label grid that has become > 0 never returns to 0, a     *)
(* background pixel's cell never becomes > 0); and the algorithm           *)
(* terminates precisely when no unvisited-foreground pixel remains.        *)
(***************************************************************************)
PixelState(f, c) ==
    IF f.labels.data[c] > 0 THEN "labeled"
    ELSE IF image.data[c] # 0 THEN "unvisited-foreground"
    ELSE "unvisited-background"

UnvisitedForeground(f) ==
    {c \in DOMAIN image.data : PixelState(f, c) = "unvisited-foreground"}

Executing(f) == f.pc # "idle"

\* Every cell holds 0 or a label, and a background pixel's cell holds 0.
PixelStatesDefined(f) ==
    /\ DOMAIN f.labels.data = DOMAIN image.data
    /\ \A c \in DOMAIN image.data :
          /\ f.labels.data[c] >= 0
          /\ image.data[c] = 0 => PixelState(f, c) = "unvisited-background"

\* C27 as stated, on rasters with a foreground pixel: the call has
\* returned exactly when no pixel is unvisited-foreground.  A Two-Pass call
\* whose first pass is over has no such pixel and a second pass to run; the
\* scans of the other algorithms go on after the last pixel is labelled.
C27_TerminatesPreciselyWhen ==
    \A p \in Procs :
        LET f == inv[p]
        IN (Executing(f) /\ ForegroundOf(image) # {}) =>
             /\ PixelStatesDefined(f)
             /\ (f.pc = "done") <=> (UnvisitedForeground(f) = {})

C27_Step ==
    \A p \in Procs :
        LET f == inv[p]
            g == inv'[p]
        IN Executing(g) =>
             /\ g.pc \notin {"IndexError", "RecursionError"}
             /\ PixelStatesDefined(g)
             /\ Executing(f) =>
                  \A c \in DOMAIN image.data :
                      PixelState(g, c) # PixelState(f, c) =>
                          /\ PixelState(f, c) = "unvisited-foreground"
                          /\ PixelState(g, c) = "labeled"
             /\ UnvisitedForeground(g) # {} => g.pc # "done"
             /\ g.pc = "done" =>
                  \A c \in DOMAIN image.data :
                      PixelState(g, c) \in {"labeled", "unvisited-background"}

\* C27, amended: the states and the transition as stated; a call that has
\* returned has no unvisited-foreground pixel, and no call returns while
\* one remains.
C27_PixelStates == [][C27_Step]_vars

\* A traversal is under way over a raster with pixels in each of the
\* three states.
C27_Witness ==
    \E p \in Procs :
        LET f == inv[p] IN
        /\ f.alg = "prim"
        /\ f.pc = "bfs"
        /\ {PixelState(f, c) : c \in DOMAIN image.data} =
               {"labeled", "unvisited-foreground", "unvisited-background"}
        /\ Cardinality({c \in DOMAIN image.data : PixelState(f, c) = "labeled"}) >= 2

(***************************************************************************)
(* C28. For every raster and connectivity in {4, 8}, UnionFind.label,      *)
(* Kruskal.label and Prim.label return numerically identical label grids,  *)
(* cell for cell and not merely the same partition: each labels a          *)
(* component with the rank of its first pixel in row-major order.          *)
(***************************************************************************)
\* The grid that gives every foreground pixel the rank of the first pixel
\* of its component, and 0 to the background.
RankGrid(img, connectivity) ==
    LET fg == ForegroundOf(img)
        first == [c \in fg |-> FirstIndex(img, connectivity, c)]
        firsts == {first[c] : c \in fg}
    IN [width |-> img.width, height |-> img.height,
        data |-> [c \in DOMAIN img.data |->
                     IF img.data[c] = 0 THEN 0
                     ELSE Cardinality({i \in firsts : i <= first[c]})]]

RankLabelled == {"union_find", "kruskal", "prim"}

C28_IdenticalGrids ==
    LET ranks == [connectivity \in ConnectivityValues |->
                     RankGrid(original, connectivity)]
    IN /\ \A i \in 1 .. Len(results) :
             results[i].name \in RankLabelled =>
                /\ Finished(results[i])
                /\ \A r \in 1 .. Len(results[i].runs) :
                      results[i].runs[r].labels = ranks[results[i].connectivity]
       /\ \A i, j \in 1 .. Len(results) :
             (/\ results[i].name \in RankLabelled
              /\ results[j].name \in RankLabelled
              /\ results[i].connectivity = results[j].connectivity)
                => \A c \in DOMAIN original.data :
                      LastLabels(results[i]).data[c] = LastLabels(results[j]).data[c]

\* The three algorithms have run under 4-connectivity on a raster with
\* several components, which Two-Pass numbers differently.
C28_Witness ==
    \E i, j, k, l \in 1 .. Len(results) :
        /\ results[i].name = "union_find"
        /\ results[j].name = "kruskal"
        /\ results[k].name = "prim"
        /\ results[l].name = "two_pass"
        /\ \A m \in {i, j, k, l} : results[m].connectivity = 4
        /\ results[k].num_components >= 2
        /\ LastLabels(results[l]) # LastLabels(results[k])
        /\ LastLabels(results[i]) = LastLabels(results[k])
        /\ LastLabels(results[j]) = LastLabels(results[k])

(***************************************************************************)
(* C29. In the output of TwoPass.label the final label of every component  *)
(* is the provisional label the first pass gave to the component's first   *)
(* pixel in row-major order, which is the least provisional label          *)
(* allocated inside the component.  The final labels are thus among the    *)
(* provisional labels 1 .. L, strictly increasing in the order of the      *)
(* components' first pixels, and replacing each by its rank gives exactly  *)
(* the label grid Prim.label returns.                                      *)
(***************************************************************************)
\* The pixel a linear index stands for in a raster.
PixelAt(img, idx) == CellOf(idx, img.width)

\* The position of a label among the labels of a grid.
RankIn(grid, label) == Cardinality({l \in LabelsOf(grid) : l <= label})

C29_TwoPassLabels ==
    \A p \in Procs :
        LET f == inv[p]
            first_pass == RunFirstPass(TwoPassLabel(image, f.connectivity))
            provisional == first_pass.labels
            L == TableLen(first_pass.parent) - 1
            prim == RunLabel("prim", image, f.connectivity)
            fg == ForegroundOf(image)
        IN (f.alg = "two_pass" /\ f.pc = "done") =>
             /\ first_pass.pc = "second_pass"
             /\ LabelsOf(provisional) = 1 .. L
             /\ \A c \in fg :
                  LET comp == Component(image, f.connectivity, c)
                      first == PixelAt(image, FirstIndex(image, f.connectivity, c))
                  IN /\ first \in comp
                     /\ f.labels.data[c] = provisional.data[first]
                     /\ f.labels.data[c] = MinOf({provisional.data[d] : d \in comp})
             /\ LabelsOf(f.labels) \subseteq 1 .. L
             /\ \A a, b \in fg :
                  FirstIndex(image, f.connectivity, a)
                        < FirstIndex(image, f.connectivity, b)
                     => f.labels.data[a] < f.labels.data[b]
             /\ prim.pc = "done"
             /\ \A c \in DOMAIN image.data :
                  prim.labels.data[c] =
                     IF f.labels.data[c] = 0 THEN 0
                     ELSE RankIn(f.labels, f.labels.data[c])

\* A returned Two-Pass call whose labels have a gap where a provisional
\* label was merged into a smaller one.
C29_Witness ==
    \E p \in Procs :
        LET f == inv[p]
            provisional == RunFirstPass(TwoPassLabel(image, f.connectivity)).labels
        IN /\ f.alg = "two_pass"
           /\ f.pc = "done"
           /\ CountLabels(f.labels) >= 2
           /\ \E c \in ForegroundOf(image) :
                 /\ f.labels.data[c] < provisional.data[c]
                 /\ \E d \in ForegroundOf(image) :
                       f.labels.data[d] > provisional.data[c]

(***************************************************************************)
(* OtherConnectivitySpec: one label() call, one loop iteration per step,   *)
(* with a connectivity that is neither 4 nor 8.  Kruskal's loop over the   *)
(* edges has no iteration here, its edge list being empty.                 *)
(***************************************************************************)
OtherPixels == 6

OtherConnectivities == {-4, 0, 6, 16}

OtherConnectivityInit ==
    /\ image \in Rasters(OtherPixels)
    /\ original = image
    /\ inv = [p \in 1 .. 1 |-> NoCall]
    /\ results = <<>>
    /\ object = NoObject
    /\ call = NoMethodCall

CallLabelOther ==
    \E p \in Procs :
        /\ inv[p].pc = "idle"
        /\ \E alg \in AlgorithmNames, connectivity \in OtherConnectivities :
              inv' = [inv EXCEPT ![p] = Label(alg, image, connectivity)]
        /\ UNCHANGED <<image, original, results, object, call>>

OtherConnectivityNext ==
    \/ CallLabelOther
    \/ TwoPassFirstPass
    \/ TwoPassSecondPass
    \/ UnionFindUnite
    \/ UnionFindCompact
    \/ KruskalBuildEdges
    \/ KruskalSort
    \/ KruskalCompact
    \/ PrimScan
    \/ PrimBfs

OtherConnectivitySpec == OtherConnectivityInit /\ [][OtherConnectivityNext]_vars

(***************************************************************************)
(* C30. When label() is called with a connectivity other than 4 or 8, none *)
(* of the four algorithms raises an error or validates the value: each     *)
(* treats every pixel as having no neighbours and returns a label grid in  *)
(* which every foreground pixel is its own component, numbered 1, 2, 3,    *)
(* ... in row-major order, so that count_labels is the number of           *)
(* foreground pixels.                                                      *)
(***************************************************************************)
\* The position of the foreground pixel c among the foreground pixels, in
\* row-major order.
RowMajorRank(img, c) ==
    Cardinality({d \in ForegroundOf(img) :
                    GetIndex(d[1], d[2], img.width) <= GetIndex(c[1], c[2], img.width)})

C30_OtherConnectivity ==
    \A p \in Procs :
        LET f == inv[p]
        IN (Executing(f) /\ f.connectivity \notin {4, 8}) =>
             /\ f.pc \notin {"IndexError", "RecursionError"}
             /\ \A c \in DOMAIN image.data :
                  /\ GetPreviousNeighbors(c[1], c[2], f.width, f.height,
                                          f.connectivity) = <<>>
                  /\ GetNeighbors(c[1], c[2], f.width, f.height,
                                  f.connectivity) = <<>>
                  /\ UnionFindNeighbors(c[1], c[2], f.width, f.connectivity) = <<>>
                  /\ KruskalNeighbors(c[1], c[2], f.width, f.connectivity) = <<>>
             /\ f.edges = <<>>
             /\ f.pc = "done" =>
                  /\ \A c \in DOMAIN image.data :
                        f.labels.data[c] =
                            IF image.data[c] = 0 THEN 0 ELSE RowMajorRank(image, c)
                  /\ CountLabels(f.labels) = Cardinality(ForegroundOf(image))

\* A call with another connectivity has returned on a raster where three
\* foreground pixels touch one another; each has a label of its own.
C30_Witness ==
    \E p \in Procs :
        LET f == inv[p] IN
        /\ f.pc = "done"
        /\ f.connectivity \notin {4, 8}
        /\ \E a, b, c \in ForegroundOf(image) :
             /\ Adjacent(a, b, 4)
             /\ Adjacent(b, c, 4)
             /\ Adjacent(a, c, 8)
             /\ Cardinality({f.labels.data[a], f.labels.data[b], f.labels.data[c]}) = 3
        /\ CountLabels(f.labels) >= 4

====
